---- MODULE Spec2Model ----
(***************************************************************************)
(* Verification model of the lightning edge node:                          *)
(*   - the replicated application executor (core/application),             *)
(*   - the BLAKE3 incremental verifier (lib/b3fs/src/verifier),            *)
(*   - the broadcast event loop (core/broadcast),                          *)
(*   - the handshake context (core/handshake),                             *)
(*   - the consensus orchestrator (core/consensus),                        *)
(*   - the resolver (core/resolver),                                       *)
(*   - the fetcher and its origin fetcher (core/fetcher).                  *)
(* Every subsystem has its own specification over the shared variables;    *)
(* a subsystem's specification leaves the other subsystems' variables at   *)
(* their constructed value.                                                *)
(***************************************************************************)
EXTENDS Integers, Sequences, FiniteSets, Bags, TLC

VARIABLES
    app,          \* application state tables (metadata, committee, nodes, accounts)
    response,     \* last BlockExecutionResponse returned by the execution socket
    validated,    \* last answer of QueryRunner::validate_txn
    collect,      \* CollectorStorage::COLLECT of the verifier's storage type
    overflow_checks, \* whether the build panics on integer overflow (debug) or wraps
    seeded,       \* the hashes given to set_root_hash, in order
    stack,        \* IncrementalVerifier.stack (expected hashes, top is the last element)
    parent_count, \* IncrementalVerifier.parent_count
    counter,      \* CollectToVec.counter
    tree,         \* CollectToVec.tree
    last_result,  \* result of the last verifier call
    accepted,     \* hashes for which verify_hash returned Ok, in order
    peers,        \* broadcast Peers.peers: public key of a connected peer -> node index
    rings,        \* broadcast Context.incoming_messages, one ring per topic index
    stats,        \* broadcast Stats: node index -> invalid_messages_received_from_peer
    state_pk,     \* node registry read through sqr: node index -> public key (0: none)
    received,     \* the frame last returned by peers.recv(), with its sender
    frame_count,  \* number of frames taken from peers.recv() so far
    has,          \* broadcast Peer.has of every key: local interned id -> remote interned id
    interned,     \* broadcast Interner: the digests in the order of their ids
    db,           \* broadcast Database: digest -> message
    sent,         \* bag of the requests given to endpoint_tx: [peer, frame]
    advr_log,     \* bag of the Advr frames handled so far, with their sender
    connections,  \* handshake Context.connections: id -> ConnectionEntry
    connection_counter, \* handshake Context.connection_counter
    now,          \* wall clock in milliseconds
    proxy_inbox,  \* per connection: pairs delivered on connection_sender
    hs_last,      \* last handshake call: its outcome, and the token and number it returned
    cs_epoch,     \* consensus: the application's current epoch as read through query_runner
    committee,    \* consensus: epoch -> whether this node's key is an authority of that epoch
    cs_now,       \* consensus: wall clock in seconds
    cs_pc,        \* consensus: position of the task spawned by Consensus::start
    consensus,    \* EpochState.consensus: the NarwhalService held, or NoService
    running,      \* ids of the NarwhalServices started and not yet shut down
    started,      \* number of NarwhalServices created so far
    edge_node,    \* whether the EdgeConsensus spawned by start is still running
    shutdown_pending,    \* waiter.wait_for_shutdown() is ready
    reconfigure_pending, \* reconfigure_notify.notified() of the main loop is ready
    shutdown_notified,   \* shutdown_notify_epoch_state.notify_waiters() was called
    tasks,        \* the tasks spawned by wait_to_signal_epoch_change, in spawn order
    submitted,    \* the ChangeEpoch transactions given to txn_socket, in order
    cs_select,    \* the branch taken by the main loop's last select and what was ready then
    rs_db,        \* resolver database: the column families b3_to_uri and uri_to_b3
    rs_pubsub,    \* resolver: the records given to pubsub.send
    rs_last,      \* resolver: the last call and its result
    ft_req,       \* fetcher: per requester, the state of its put task and the answer it got
    ft_origin_tx, \* fetcher: the OriginRequests sent on origin_tx and not yet taken
    ft_origin,    \* origin fetcher: response channels, fetches at the origin, queue, contact counts
    ft_stored,    \* pointers whose content is in the blockstore and whose mapping is known
    ft_puts,      \* number of put requests taken from the socket so far
    demo,\* verifier walk: the tree size, the next leaf, and whether its proof was fed
    pinned, \* broadcast peers: the pinned keys
    connecting, \* broadcast: connect tasks spawned for a key and not yet finished
    applied,\* broadcast: number of topologies applied so far
    http_sender, \* http transport: the HttpSender of the request, with what was asked of it
    http_termination, \* http transport: the one-shot termination channel
    http_body, \* http transport: the payloads in the body channel
    http_handler,\* http transport: the position of the request handler and its response
    fx_blockstore, \* fetch: whether the tree of the hash is in the local blockstore
    fx,\* fetch: the call of FetcherInner::fetch, its position, the sources it asked and its result
    nt_now, \* notifier: the system time, in ticks
    nt_epoch, \* notifier: the epoch info of the application: the epoch and its end
    nt_requests,\* notifier: the requests made, each with its task and what was sent on its tx
    sy_epoch, \* syncronizer: the epoch of the local application
    sy_remote, \* syncronizer: the epoch of every genesis node
    sy,\* syncronizer: the position of run, what was sent on tx_update_ready, and the last try_sync
    staking, \* application staking: the epoch, the balances of the owner and of the other account, and the stake of the node
    staking_resp,\* application staking: the method and the response of the last transaction
    pool, \* pool: the connections of the event handler, by node index
    pool_last,\* pool: the last call of the event handler and the peers of its endpoint task
    ml_loop, \* the broadcast main loop: its state, the events it handled, the last one, the topology applied
    ml_shutdown, \* the shutdown signal was sent
    ml_command_rx, \* the commands waiting on the command channel
    ml_net, \* the connections and frames waiting for the loop
    ml_app, \* the epoch of the application, whether its end has passed; what the callers and the network sent
    ml_sub,\* the topology subscriber: its position, the notifier task, the two channels
    hf_connections, \* handshake frames: the sessions, each with the client key of its connection header
    hf_counter, \* handshake frames: the connection counter
    hf_inbox, \* handshake frames: the pairs sent to the proxy of each session, with the key of the frame
    hf_primary, \* handshake frames: the key of the frame whose pair is the primary connection of each session
    hf_last,\* handshake frames: the last frame handled
    fr_is_running, \* fetcher: the is_running flag
    fr_caller, \* fetcher: the position of the caller in start(), the tasks it spawned, the starts refused
    fr_task, \* fetcher: the position of every spawned task
    fr_receivers, \* fetcher: the receivers are in their mutexes
    fr_channels,\* fetcher: the signals on the shutdown channel and the requests on the socket
    sx_sequence, \* service executor: the next sequence id of every connection
    sx_spawned, \* service executor: the spawned tasks that have not put their work yet
    sx_scheduler, \* service executor: the work put on the scheduler, in order
    sx_calls,\* service executor: the calls of the callback so far
    pg_ongoing, \* dht ping: the TaskInfo of the ping task in the ongoing map
    pg_task, \* dht ping: the position of the task, its attempts left, the pings sent, what the select gave
    pg_rx, \* dht ping: the oneshot of the task
    pg_events, \* dht ping: the events the task sent to the event queue
    pg_net,\* dht ping: the PONG messages handled, whether one was for the task, what became of the last
    pf_map, \* ebpf: the keys of the packet-filter map
    pf_rules, \* ebpf: the rules of the rule file
    pf_lock, \* ebpf: the call whose guard holds the mutex of the packet filters
    pf_call,\* ebpf: the calls of packet_filter_add and packet_filter_remove, each with its position
    sim, \* simulon: the main thread in run, the size of the simulation, the handles it holds
    sim_atomics, \* simulon: the atomics frame, cursor and ready_workers
    sim_worker,\* simulon: every worker thread: its position, its current frame, the nodes it executed
    hti, \* HashTreeIter: forward, backward and the length of the tree's flat slice
    hti_taken, \* the leaves handed out so far, with the end they were asked from
    hti_last,\* the last call on the iterator and its result
    hti_calls \* the number of calls made on the iterator

appVars == <<app, response, validated>>
verVars == <<collect, overflow_checks, seeded, stack, parent_count, counter, tree, last_result, accepted>>
bcVars == <<peers, rings, stats, state_pk, received, frame_count, has, interned, db, sent, advr_log>>
hsVars == <<connections, connection_counter, now, proxy_inbox, hs_last>>
csVars == <<cs_epoch, committee, cs_now, cs_pc, consensus, running, started, edge_node, shutdown_pending,
            reconfigure_pending, shutdown_notified, tasks, submitted, cs_select>>
rsVars == <<rs_db, rs_pubsub, rs_last>>
ftVars == <<ft_req, ft_origin_tx, ft_origin, ft_stored, ft_puts>>
demoVars == <<demo>>
tpVars == <<pinned, connecting, applied>>
httpVars == <<http_sender, http_termination, http_body, http_handler>>
fxVars == <<fx_blockstore, fx>>
ntVars == <<nt_now, nt_epoch, nt_requests>>
syVars == <<sy_epoch, sy_remote, sy>>
stkVars == <<staking, staking_resp>>
poolVars == <<pool, pool_last>>
mlVars == <<ml_loop, ml_shutdown, ml_command_rx, ml_net, ml_app, ml_sub>>
hfVars == <<hf_connections, hf_counter, hf_inbox, hf_primary, hf_last>>
frVars == <<fr_is_running, fr_caller, fr_task, fr_receivers, fr_channels>>
sxVars == <<sx_sequence, sx_spawned, sx_scheduler, sx_calls>>
pgVars == <<pg_ongoing, pg_task, pg_rx, pg_events, pg_net>>
pfVars == <<pf_map, pf_rules, pf_lock, pf_call>>
simVars == <<sim, sim_atomics, sim_worker>>
htiVars == <<hti, hti_taken, hti_last, hti_calls>>
extVars == <<csVars, rsVars, ftVars, demoVars, tpVars, httpVars, fxVars, ntVars, syVars, stkVars, poolVars, mlVars, hfVars, frVars, sxVars, pgVars, pfVars, simVars, htiVars>>
outsideConsensus == <<appVars, verVars, bcVars, hsVars, rsVars, ftVars, demoVars, tpVars, httpVars, fxVars, ntVars, syVars, stkVars, poolVars, mlVars, hfVars, frVars, sxVars, pgVars, pfVars, simVars, htiVars>>
outsideResolver == <<appVars, verVars, bcVars, hsVars, csVars, ftVars, demoVars, tpVars, httpVars, fxVars, ntVars, syVars, stkVars, poolVars, mlVars, hfVars, frVars, sxVars, pgVars, pfVars, simVars, htiVars>>
outsideFetcher == <<appVars, verVars, bcVars, hsVars, csVars, rsVars, demoVars, tpVars, httpVars, fxVars, ntVars, syVars, stkVars, poolVars, mlVars, hfVars, frVars, sxVars, pgVars, pfVars, simVars, htiVars>>
outsideDemo == <<appVars, bcVars, hsVars, csVars, rsVars, ftVars, tpVars, httpVars, fxVars, ntVars, syVars, stkVars, poolVars, mlVars, hfVars, frVars, sxVars, pgVars, pfVars, simVars, htiVars>>
outsideTopology == <<appVars, verVars, hsVars, csVars, rsVars, ftVars, demoVars, httpVars, fxVars, ntVars, syVars, stkVars, poolVars, mlVars, hfVars, frVars, sxVars, pgVars, pfVars, simVars, htiVars>>
outsideHttp == <<appVars, verVars, bcVars, hsVars, csVars, rsVars, ftVars, demoVars, tpVars, fxVars, ntVars, syVars, stkVars, poolVars, mlVars, hfVars, frVars, sxVars, pgVars, pfVars, simVars, htiVars>>
outsideFetch == <<appVars, verVars, bcVars, hsVars, csVars, rsVars, ftVars, demoVars, tpVars, httpVars, ntVars, syVars, stkVars, poolVars, mlVars, hfVars, frVars, sxVars, pgVars, pfVars, simVars, htiVars>>
outsideNotifier == <<appVars, verVars, bcVars, hsVars, csVars, rsVars, ftVars, demoVars, tpVars, httpVars, fxVars, syVars, stkVars, poolVars, mlVars, hfVars, frVars, sxVars, pgVars, pfVars, simVars, htiVars>>
outsideSyncronizer == <<appVars, verVars, bcVars, hsVars, csVars, rsVars, ftVars, demoVars, tpVars, httpVars, fxVars, ntVars, stkVars, poolVars, mlVars, hfVars, frVars, sxVars, pgVars, pfVars, simVars, htiVars>>
outsideStaking == <<appVars, verVars, bcVars, hsVars, csVars, rsVars, ftVars, demoVars, tpVars, httpVars, fxVars, ntVars, syVars, poolVars, mlVars, hfVars, frVars, sxVars, pgVars, pfVars, simVars, htiVars>>
outsidePool == <<appVars, verVars, bcVars, hsVars, csVars, rsVars, ftVars, demoVars, tpVars, httpVars, fxVars, ntVars, syVars, stkVars, mlVars, hfVars, frVars, sxVars, pgVars, pfVars, simVars, htiVars>>
outsideMainLoop == <<appVars, verVars, bcVars, hsVars, csVars, rsVars, ftVars, demoVars, tpVars, httpVars, fxVars, ntVars, syVars, stkVars, poolVars, hfVars, frVars, sxVars, pgVars, pfVars, simVars, htiVars>>
outsideFrames == <<appVars, verVars, bcVars, hsVars, csVars, rsVars, ftVars, demoVars, tpVars, httpVars, fxVars, ntVars, syVars, stkVars, poolVars, mlVars, frVars, sxVars, pgVars, pfVars, simVars, htiVars>>
outsideRunning == <<appVars, verVars, bcVars, hsVars, csVars, rsVars, ftVars, demoVars, tpVars, httpVars, fxVars, ntVars, syVars, stkVars, poolVars, mlVars, hfVars, sxVars, pgVars, pfVars, simVars, htiVars>>
outsideCallback == <<appVars, verVars, bcVars, hsVars, csVars, rsVars, ftVars, demoVars, tpVars, httpVars, fxVars, ntVars, syVars, stkVars, poolVars, mlVars, hfVars, frVars, pgVars, pfVars, simVars, htiVars>>
outsidePing == <<appVars, verVars, bcVars, hsVars, csVars, rsVars, ftVars, demoVars, tpVars, httpVars, fxVars, ntVars, syVars, stkVars, poolVars, mlVars, hfVars, frVars, sxVars, pfVars, simVars, htiVars>>
outsideFilters == <<appVars, verVars, bcVars, hsVars, csVars, rsVars, ftVars, demoVars, tpVars, httpVars, fxVars, ntVars, syVars, stkVars, poolVars, mlVars, hfVars, frVars, sxVars, pgVars, simVars, htiVars>>
outsideSimulation == <<appVars, verVars, bcVars, hsVars, csVars, rsVars, ftVars, demoVars, tpVars, httpVars, fxVars, ntVars, syVars, stkVars, poolVars, mlVars, hfVars, frVars, sxVars, pgVars, pfVars, htiVars>>
outsideTreeIter == <<appVars, verVars, bcVars, hsVars, csVars, rsVars, ftVars, demoVars, tpVars, httpVars, fxVars, ntVars, syVars, stkVars, poolVars, mlVars, hfVars, frVars, sxVars, pgVars, pfVars, simVars>>
vars == <<app, response, validated, collect, overflow_checks, seeded, stack, parent_count, counter, tree, last_result,
          accepted, peers, rings, stats, state_pk, received, frame_count, has, interned, db, sent,
          advr_log, connections, connection_counter,
          now, proxy_inbox, hs_last, cs_epoch, committee, cs_now, cs_pc, consensus, running, started,
          edge_node, shutdown_pending, reconfigure_pending, shutdown_notified, tasks, submitted, cs_select,
          rs_db, rs_pubsub, rs_last, ft_req, ft_origin_tx, ft_origin, ft_stored, ft_puts,
          demo,
          pinned, connecting, applied,
          http_sender, http_termination, http_body, http_handler,
          fx_blockstore, fx,
          nt_now, nt_epoch, nt_requests,
          sy_epoch, sy_remote, sy,
          staking, staking_resp,
          pool, pool_last,
          ml_loop, ml_shutdown, ml_command_rx, ml_net, ml_app, ml_sub,
          hf_connections, hf_counter, hf_inbox, hf_primary, hf_last,
          fr_is_running, fr_caller, fr_task, fr_receivers, fr_channels,
          sx_sequence, sx_spawned, sx_scheduler, sx_calls,
          pg_ongoing, pg_task, pg_rx, pg_events, pg_net,
          pf_map, pf_rules, pf_lock, pf_call,
          sim, sim_atomics, sim_worker,
          hti, hti_taken, hti_last, hti_calls>>

Max(a, b) == IF a >= b THEN a ELSE b

(***************************************************************************)
(* Application executor                                                    *)
(***************************************************************************)

\* Bounds of the application model.
NumNodes == 4
MaxNonce == 2
MaxEpoch == 2
MaxBlockLen == 2

Nodes == 0 .. (NumNodes - 1)
Owner == -1

NodeSender(n) == [kind |-> "node", id |-> n]
AccountSender == [kind |-> "account", id |-> Owner]

\* A threshold of two thirds without the extra signal.
RequiredSignalsTwoThirds(committee_size) == (2 * committee_size) \div 3

\* required_signals = 2 * committee_size / 3 + 1
RequiredSignals(committee_size) == (2 * committee_size) \div 3 + 1

\* Genesis committees of the tests: the first k genesis nodes.
GenesisCommittee(k) == 0 .. (k - 1)

AppInitStates ==
    { [ epoch      |-> 0,
        members    |-> GenesisCommittee(k),
        signals    |-> {},
        node_nonce |-> [n \in Nodes |-> 0],
        acct_nonce |-> 0,
        flk        |-> 0,
        staked     |-> 0,
        registered |-> FALSE ] : k \in 3 .. NumNodes }

Success == "Success"
Revert(e) == e
IsRevert(r) == r # Success

StoredNonce(st, sender) ==
    IF sender.kind = "node" THEN st.node_nonce[sender.id] ELSE st.acct_nonce

\* A next nonce that repeats the stored one.
NextNonceRepeated(st, sender) == StoredNonce(st, sender)

\* The nonce of a sender's next request: get_node_info(..).nonce + 1
NextNonce(st, sender) == StoredNonce(st, sender) + 1

BumpNonce(st, sender) ==
    IF sender.kind = "node"
    THEN [st EXCEPT !.node_nonce[sender.id] = @ + 1]
    ELSE [st EXCEPT !.acct_nonce = @ + 1]

\* Committee selection at the epoch boundary, seeded by the block digest.
ChooseNewCommittee(st, digest) ==
    LET size == Cardinality(st.members)
    IN  IF digest = 0 THEN GenesisCommittee(size)
        ELSE (NumNodes - size) .. (NumNodes - 1)

ChangeEpochMethod(e) == [name |-> "ChangeEpoch", epoch |-> e, details |-> FALSE]
DepositMethod == [name |-> "Deposit", epoch |-> 0, details |-> FALSE]
StakeMethod(d) == [name |-> "Stake", epoch |-> 0, details |-> d]

\* ChangeEpoch that records the signal of any node.
ChangeEpochOfAnyNode(st, sender, epoch, digest) ==
    IF epoch > st.epoch
    THEN [state |-> st, resp |-> Revert("EpochHasNotStarted"), change_epoch |-> FALSE]
    ELSE IF epoch < st.epoch
    THEN [state |-> st, resp |-> Revert("EpochAlreadyChanged"), change_epoch |-> FALSE]
    ELSE LET signalled == st.signals \cup {sender.id}
         IN  IF Cardinality(signalled) >= RequiredSignals(Cardinality(st.members))
             THEN [state |-> [st EXCEPT !.epoch = @ + 1,
                                        !.members = ChooseNewCommittee(st, digest),
                                        !.signals = {}],
                   resp |-> Success, change_epoch |-> TRUE]
             ELSE [state |-> [st EXCEPT !.signals = signalled],
                   resp |-> Success, change_epoch |-> FALSE]

\* ChangeEpoch { epoch }: only for the current epoch and only from a member of
\* the current committee; the signal set is a set, so a repeated signal adds
\* nothing.  The epoch advances at the transaction that completes the quorum.
ChangeEpoch(st, sender, epoch, digest) ==
    IF epoch > st.epoch
    THEN [state |-> st, resp |-> Revert("EpochHasNotStarted"), change_epoch |-> FALSE]
    ELSE IF epoch < st.epoch
    THEN [state |-> st, resp |-> Revert("EpochAlreadyChanged"), change_epoch |-> FALSE]
    ELSE IF sender.kind # "node" \/ sender.id \notin st.members
    THEN [state |-> st, resp |-> Revert("NotCommitteeMember"), change_epoch |-> FALSE]
    ELSE LET signalled == st.signals \cup {sender.id}
         IN  IF Cardinality(signalled) >= RequiredSignals(Cardinality(st.members))
             THEN [state |-> [st EXCEPT !.epoch = @ + 1,
                                        !.members = ChooseNewCommittee(st, digest),
                                        !.signals = {}],
                   resp |-> Success, change_epoch |-> TRUE]
             ELSE [state |-> [st EXCEPT !.signals = signalled],
                   resp |-> Success, change_epoch |-> FALSE]

\* Deposit { token: FLK, amount: 1 } credits the sender's account.
Deposit(st, sender) ==
    IF sender.kind # "account"
    THEN [state |-> st, resp |-> Revert("OnlyAccountOwner"), change_epoch |-> FALSE]
    ELSE [state |-> [st EXCEPT !.flk = @ + 1], resp |-> Success, change_epoch |-> FALSE]

\* Stake { amount: 1, node_pk: NewNode, .. }: the amount is taken from the
\* sender's balance; a node that does not exist yet needs all its details.
Stake(st, sender, details) ==
    IF sender.kind # "account"
    THEN [state |-> st, resp |-> Revert("OnlyAccountOwner"), change_epoch |-> FALSE]
    ELSE IF st.flk < 1
    THEN [state |-> st, resp |-> Revert("InsufficientBalance"), change_epoch |-> FALSE]
    ELSE LET debited == [st EXCEPT !.flk = @ - 1]
         IN  IF ~st.registered /\ ~details
             THEN [state |-> debited, resp |-> Revert("InsufficientNodeDetails"),
                   change_epoch |-> FALSE]
             ELSE [state |-> [debited EXCEPT !.registered = TRUE, !.staked = @ + 1],
                   resp |-> Success, change_epoch |-> FALSE]

ExecuteMethod(st, sender, method, digest) ==
    CASE method.name = "ChangeEpoch" -> ChangeEpoch(st, sender, method.epoch, digest)
      [] method.name = "Deposit" -> Deposit(st, sender)
      [] method.name = "Stake" -> Stake(st, sender, method.details)

\* An executor that keeps the changes of a reverted method.
ExecuteTxnNoRollback(st, tx, digest) ==
    IF ~tx.sig_ok
    THEN [state |-> st, resp |-> Revert("InvalidSignature"), change_epoch |-> FALSE]
    ELSE IF tx.nonce # NextNonce(st, tx.sender)
    THEN [state |-> st, resp |-> Revert("InvalidNonce"), change_epoch |-> FALSE]
    ELSE ExecuteMethod(BumpNonce(st, tx.sender), tx.sender, tx.method, digest)

\* One UpdateRequest: signature, then nonce, then the method.  A revert keeps
\* only the consumed nonce.
ExecuteTxn(st, tx, digest) ==
    IF ~tx.sig_ok
    THEN [state |-> st, resp |-> Revert("InvalidSignature"), change_epoch |-> FALSE]
    ELSE IF tx.nonce # NextNonce(st, tx.sender)
    THEN [state |-> st, resp |-> Revert("InvalidNonce"), change_epoch |-> FALSE]
    ELSE LET checkpoint == BumpNonce(st, tx.sender)
             r == ExecuteMethod(checkpoint, tx.sender, tx.method, digest)
         IN  IF IsRevert(r.resp)
             THEN [state |-> checkpoint, resp |-> r.resp, change_epoch |-> FALSE]
             ELSE r

\* A block: the transactions in order; change_epoch is set when one of them
\* changed the epoch.
RECURSIVE ExecuteBlock(_, _, _)
ExecuteBlock(st, txs, digest) ==
    IF txs = <<>>
    THEN [state |-> st, receipts |-> <<>>, change_epoch |-> FALSE]
    ELSE LET r == ExecuteTxn(st, Head(txs), digest)
             rest == ExecuteBlock(r.state, Tail(txs), digest)
         IN  [state |-> rest.state,
              receipts |-> <<r.resp>> \o rest.receipts,
              change_epoch |-> r.change_epoch \/ rest.change_epoch]

\* The update requests offered to the executor in state st.
NonceChoices(st, sender) ==
    {StoredNonce(st, sender), StoredNonce(st, sender) + 1, StoredNonce(st, sender) + 2}
        \cap (0 .. MaxNonce)

Senders == {NodeSender(n) : n \in Nodes} \cup {AccountSender}

Methods(st, sender) ==
    IF sender.kind = "node"
    THEN {ChangeEpochMethod(st.epoch), ChangeEpochMethod(st.epoch + 1)}
    ELSE {DepositMethod, StakeMethod(FALSE), StakeMethod(TRUE)}

\* Requests of one sender; node 0 is also impersonated with a bad signature.
TxsOf(st, sender) ==
    { [sender |-> sender, nonce |-> k, method |-> m, sig_ok |-> TRUE] :
        k \in NonceChoices(st, sender), m \in Methods(st, sender) }
    \cup
    { [sender |-> sender, nonce |-> StoredNonce(st, sender) + 1,
       method |-> ChangeEpochMethod(st.epoch), sig_ok |-> FALSE] :
        x \in IF sender = NodeSender(0) THEN {0} ELSE {} }

Txs(st) == UNION { TxsOf(st, sender) : sender \in Senders }

\* A block carries one request or a batch of requests of one sender.
Blocks(st) ==
    UNION { [1 .. len -> TxsOf(st, sender)] : len \in 1 .. MaxBlockLen, sender \in Senders }

\* Block.digest, a function of the block's content.
BlockDigest(txs) == (Len(txs) + txs[1].nonce) % 2

NoResponse == [receipts |-> <<>>, change_epoch |-> FALSE]
NoValidation == <<>>

AppInit ==
    /\ app \in AppInitStates
    /\ response = NoResponse
    /\ validated = NoValidation

Idle == response = NoResponse /\ validated = NoValidation

\* ExecutionEngineSocket.run(Block { transactions, digest })
RunBlock ==
    /\ Idle
    /\ app.epoch < MaxEpoch
    /\ \E txs \in Blocks(app) :
         LET r == ExecuteBlock(app, txs, BlockDigest(txs))
         IN  /\ app' = r.state
             /\ response' = [receipts |-> r.receipts, change_epoch |-> r.change_epoch]
    /\ UNCHANGED <<validated, verVars, bcVars, hsVars, extVars>>

\* A validation that looks at the method only.
validate_txn_method_only(st, tx) == ExecuteMethod(st, tx.sender, tx.method, 0).resp

\* QueryRunner::validate_txn(tx): runs the transaction on a snapshot and
\* returns its response; the snapshot is dropped.
validate_txn(st, tx) == ExecuteTxn(st, tx, 0).resp

ValidateTxn ==
    /\ Idle
    /\ \E tx \in Txs(app) :
         validated' = <<[tx |-> tx, resp |-> validate_txn(app, tx)]>>
    /\ UNCHANGED <<app, response, verVars, bcVars, hsVars, extVars>>

\* The caller takes the answer of its request.
TakeAnswer ==
    /\ ~Idle
    /\ response' = NoResponse
    /\ validated' = NoValidation
    /\ UNCHANGED <<app, verVars, bcVars, hsVars, extVars>>

(***************************************************************************)
(* Properties of the executor.  A request is executed only while the       *)
(* socket is idle, so the per-transaction statements are evaluated in the  *)
(* idle states, which cover every reachable application state.             *)
(***************************************************************************)
WellFormed(st, tx) == tx.sig_ok /\ tx.nonce = StoredNonce(st, tx.sender) + 1

\* tx is the signal that completes the quorum of the committee in st.
CompletesQuorum(st, tx) ==
    /\ WellFormed(st, tx)
    /\ tx.method.name = "ChangeEpoch"
    /\ tx.method.epoch = st.epoch
    /\ tx.sender.kind = "node"
    /\ tx.sender.id \in st.members
    /\ tx.sender.id \notin st.signals
    /\ Cardinality(st.signals) + 1 = (2 * Cardinality(st.members)) \div 3 + 1

BlockExecuted == response' # response /\ response' # NoResponse

C1_PerTxn ==
    /\ Cardinality(app.signals) < (2 * Cardinality(app.members)) \div 3 + 1
    /\ Idle => \A tx \in Txs(app) :
         LET r == ExecuteTxn(app, tx, 0)
         IN  /\ r.change_epoch <=> CompletesQuorum(app, tx)
             /\ r.state.epoch = IF CompletesQuorum(app, tx) THEN app.epoch + 1 ELSE app.epoch
             /\ (tx.sender.kind = "node" /\ tx.sender.id \in app.signals)
                   => r.state.signals = app.signals

C1_PerBlock ==
    BlockExecuted =>
        /\ app'.epoch \in {app.epoch, app.epoch + 1}
        /\ response'.change_epoch <=> (app'.epoch = app.epoch + 1)
        /\ ~response'.change_epoch =>
              Cardinality(app'.signals) < (2 * Cardinality(app.members)) \div 3 + 1

\* C1: the epoch advances by exactly one, with change_epoch = true, at exactly
\* the ChangeEpoch that raises the number of distinct signalling committee
\* members to floor(2*|C|/3)+1; earlier signals leave the epoch alone with
\* change_epoch = false, and a repeated signal of a member is counted once.
C1_EpochChangeAtQuorum == []C1_PerTxn /\ [][C1_PerBlock]_vars

\* A quorum of a committee of four has just changed the epoch.
W_C1 ==
    /\ response.change_epoch
    /\ app.epoch = 1
    /\ Cardinality(app.members) = 4
    /\ Cardinality({n \in Nodes : app.node_nonce[n] > 0}) = 3

C2_PerTxn ==
    Idle => \A tx \in Txs(app) :
        LET r == ExecuteTxn(app, tx, 0)
        IN  /\ r.state # app => tx.nonce = StoredNonce(app, tx.sender) + 1
            /\ tx.nonce # StoredNonce(app, tx.sender) + 1 => IsRevert(r.resp)
            /\ \A s \in Senders :
                 StoredNonce(r.state, s) =
                    IF s = tx.sender /\ r.state # app
                    THEN StoredNonce(app, s) + 1 ELSE StoredNonce(app, s)

C2_PerBlock ==
    \A s \in Senders :
        /\ StoredNonce(app', s) >= StoredNonce(app, s)
        /\ StoredNonce(app', s) - StoredNonce(app, s) <= Len(response'.receipts)

\* C2: a transaction is applied only when its nonce is the sender's stored
\* nonce plus one; any other nonce is not applied, and a sender's nonce grows
\* by exactly one per applied transaction.
C2_NonceExactlyNext == []C2_PerTxn /\ [][C2_PerBlock]_vars

\* A batch in which the second request repeats the nonce of the first.
W_C2 ==
    /\ response.receipts = <<"Success", "InvalidNonce">>
    /\ \E s \in Senders : StoredNonce(app, s) = 1

\* C3: the recorded signals are a subset of the current committee, and a
\* ChangeEpoch of a node outside the committee is neither recorded nor counted.
C3_SignalsFromCommittee ==
    /\ app.signals \subseteq app.members
    /\ Idle => \A tx \in Txs(app) :
         (tx.sender.kind = "node" /\ tx.sender.id \notin app.members) =>
            LET r == ExecuteTxn(app, tx, 0)
            IN  /\ r.state.signals = app.signals
                /\ r.state.epoch = app.epoch
                /\ ~r.change_epoch

\* A node outside the committee has just signalled while signals are recorded.
W_C3 ==
    /\ response.receipts = <<"NotCommitteeMember">>
    /\ app.signals # {}
    /\ \E n \in Nodes \ app.members : app.node_nonce[n] > 0

\* post is pre with nothing changed but the nonce of sender, advanced by one.
OnlyNonceAdvanced(pre, post, sender) ==
    IF sender.kind = "node"
    THEN post = [pre EXCEPT !.node_nonce[sender.id] = pre.node_nonce[sender.id] + 1]
    ELSE post = [pre EXCEPT !.acct_nonce = pre.acct_nonce + 1]

C4_PerTxn ==
    Idle => \A tx \in Txs(app) :
        LET r == ExecuteTxn(app, tx, 0)
        IN  (WellFormed(app, tx) /\ IsRevert(r.resp)) =>
               /\ OnlyNonceAdvanced(app, r.state, tx.sender)
               /\ StoredNonce(r.state, tx.sender) = tx.nonce
               /\ \A next \in TxsOf(r.state, tx.sender) :
                    ExecuteTxn(r.state, next, 0).state # r.state
                        => next.nonce = tx.nonce + 1

C4_PerBlock ==
    BlockExecuted =>
        /\ Len(response'.receipts) >= 1
        /\ (/\ Len(response'.receipts) = 1
            /\ IsRevert(response'.receipts[1])
            /\ response'.receipts[1] \notin {"InvalidNonce", "InvalidSignature"})
             => \E s \in Senders : OnlyNonceAdvanced(app, app', s)

\* C4: a reverting transaction with the correct nonce changes nothing but the
\* sender's nonce, which advances by one; the block answers with the revert in
\* the receipt, and the sender's next accepted transaction has the next nonce.
C4_RevertKeepsNonceOnly == []C4_PerTxn /\ [][C4_PerBlock]_vars

\* A funded stake without node details reverted: the balance is back, no
\* node is registered, and the nonce of the request is consumed.
W_C4 ==
    /\ response.receipts = <<"InsufficientNodeDetails">>
    /\ app.acct_nonce = 2
    /\ app.flk = 1
    /\ app.staked = 0
    /\ ~app.registered

AppNext == RunBlock \/ ValidateTxn \/ TakeAnswer

(***************************************************************************)
(* BLAKE3 incremental verifier                                             *)
(*                                                                         *)
(* Hashes are terms: a block hash is <<"L", i>> and IV::merge builds       *)
(* <<"M", left, right, is_root>>, so two hashes are equal only when they   *)
(* were computed from the same inputs (collision resistance).              *)
(***************************************************************************)

\* Bounds of the verifier model.
MaxLeaves == 3
MaxProofLen == 3
MaxSeeds == 2

Leaf(i) == <<"L", i>>
merge(left, right, is_root) == <<"M", left, right, is_root>>
IsLeaf(h) == h[1] = "L"

\* The largest power of two below n (n >= 2): the size of the left subtree.
RECURSIVE LeftLen(_)
LeftLen(n) == IF n <= 2 THEN 1 ELSE 2 * LeftLen((n + 1) \div 2)

\* The tree over the blocks lo .. hi-1.
RECURSIVE TreeOf(_, _, _)
TreeOf(lo, hi, is_root) ==
    IF hi - lo = 1 THEN Leaf(lo)
    ELSE LET mid == lo + LeftLen(hi - lo)
         IN  merge(TreeOf(lo, mid, FALSE), TreeOf(mid, hi, FALSE), is_root)

RootOf(n) == TreeOf(0, n, TRUE)

RECURSIVE NodesOf(_)
NodesOf(h) == IF IsLeaf(h) THEN {h} ELSE {h} \cup NodesOf(h[2]) \cup NodesOf(h[3])

RECURSIVE LeavesOf(_)
LeavesOf(h) == IF IsLeaf(h) THEN <<h>> ELSE LeavesOf(h[2]) \o LeavesOf(h[3])

ForeignLeaf == Leaf(MaxLeaves)
HashPool == NodesOf(RootOf(MaxLeaves)) \cup {ForeignLeaf}
BlockHashes == {h \in HashPool : IsLeaf(h)}
Roots == {RootOf(n) : n \in 1 .. MaxLeaves}

\* What ProofBufIter yields for a proof buffer: (should_flip, hash) pairs.
ProofEntries == [flip : BOOLEAN, hash : HashPool]
Proofs == UNION { [1 .. len -> ProofEntries] : len \in 0 .. MaxProofLen }

is_valid_proof_len(proof) == Len(proof) >= 2

\* parent_count is a u8: += 1 and -= 1 panic with overflow checks, else wrap.
U8 == 256
Overflows(x) == overflow_checks /\ (x < 0 \/ x >= U8)

Reverse(seq) == [i \in 1 .. Len(seq) |-> seq[Len(seq) + 1 - i]]
Last(seq) == seq[Len(seq)]
Pop(seq) == SubSeq(seq, 1, Len(seq) - 1)

is_finished ==
    IF collect THEN Len(stack) = parent_count ELSE stack = <<>>

is_root ==
    Len(stack) = 1 /\ (IF collect THEN counter = 0 ELSE parent_count = 0)

\* The loop of feed_proof_internal from entry i on; ar is the two-slot stack.
RECURSIVE FeedLoop(_, _, _, _, _)
FeedLoop(stk, pc, ar, proof, i) ==
    IF i > Len(proof)
    THEN [err |-> "none", stack |-> stk, parent_count |-> pc, ar |-> ar]
    ELSE LET full == Len(ar) = 2
             hash == merge(ar[1], ar[2], FALSE)
             stk1 == IF full /\ collect THEN Append(stk, hash) ELSE stk
             pc1 == IF full /\ collect THEN (pc + 1) % U8 ELSE pc
             ar1 == Append(IF full THEN <<hash>> ELSE ar, proof[i].hash)
         IN  IF full /\ collect /\ Overflows(pc + 1)
             THEN [err |-> "Panic", stack |-> stk1, parent_count |-> pc, ar |-> ar]
             ELSE IF proof[i].flip
             THEN IF collect \/ i = 1
                  THEN [err |-> "InvalidProofWalk", stack |-> stk1,
                        parent_count |-> pc1, ar |-> ar1]
                  ELSE FeedLoop(stk1, pc1, <<ar1[2], ar1[1]>>, proof, i + 1)
             ELSE FeedLoop(Append(stk1, proof[i].hash), pc1, ar1, proof, i + 1)

feed_proof_internal(stk, pc, root_flag, expected_hash, proof) ==
    LET l == FeedLoop(stk, pc, <<>>, proof, 1)
    IN  IF l.err # "none"
        THEN [err |-> l.err, stack |-> l.stack, parent_count |-> l.parent_count]
        ELSE LET hash == merge(l.ar[1], l.ar[2], root_flag)
                 pc1 == IF collect THEN (l.parent_count + 1) % U8 ELSE 1
             IN  [err |-> IF collect /\ Overflows(l.parent_count + 1) THEN "Panic"
                          ELSE IF hash # expected_hash THEN "HashMismatch" ELSE "none",
                  stack |-> l.stack, parent_count |-> pc1]

\* A revert that forgets to push the expected hash back.
revert_without_push(dirty_stack, old_stack_len, expected_hash) ==
    SubSeq(dirty_stack, 1, old_stack_len)

\* The revert of feed_proof: truncate, and push back what was popped.
revert(dirty_stack, old_stack_len, expected_hash) ==
    LET truncated == SubSeq(dirty_stack, 1, old_stack_len)
    IN  IF collect THEN truncated ELSE Append(truncated, expected_hash)

\* feed_proof: the new stack and parent_count, and the result of the call.
feed_proof(proof) ==
    IF is_finished
    THEN [result |-> "Terminated", stack |-> stack, parent_count |-> parent_count]
    ELSE IF proof = <<>>
    THEN [result |-> "Ok", stack |-> stack, parent_count |-> parent_count]
    ELSE IF ~is_valid_proof_len(proof)
    THEN [result |-> "InvalidProofSize", stack |-> stack, parent_count |-> parent_count]
    ELSE IF stack = <<>>
    THEN [result |-> "Panic", stack |-> stack, parent_count |-> parent_count]
    ELSE LET expected_hash == Last(stack)
             popped == IF collect THEN stack ELSE Pop(stack)
             old_stack_len == Len(popped)
             old_parent_count == parent_count
             r == feed_proof_internal(popped, parent_count, is_root, expected_hash, proof)
         IN  IF r.err = "Panic"
             THEN [result |-> "Panic", stack |-> r.stack, parent_count |-> r.parent_count]
             ELSE IF r.err # "none"
             THEN [result |-> r.err,
                   stack |-> revert(r.stack, old_stack_len, expected_hash),
                   parent_count |-> old_parent_count]
             ELSE [result |-> "Ok",
                   stack |-> SubSeq(r.stack, 1, old_stack_len)
                               \o Reverse(SubSeq(r.stack, old_stack_len + 1, Len(r.stack))),
                   parent_count |-> r.parent_count]

\* The loop of CollectToVec::advance over the trailing zero bits of the counter.
RECURSIVE AdvanceLoop(_, _, _, _)
AdvanceLoop(total_entries, stk, tr, pc) ==
    IF total_entries % 2 # 0
    THEN [panic |-> FALSE, stack |-> stk, tree |-> tr, parent_count |-> pc]
    ELSE IF stk = <<>> \/ Overflows(pc - 1)
    THEN [panic |-> TRUE, stack |-> stk, tree |-> tr, parent_count |-> pc]
    ELSE AdvanceLoop(total_entries \div 2, Pop(stk), Append(tr, Last(stk)), (pc - 1) % U8)

\* mutant of advance: the collector stores the visited leaf only
advance_without_parents ==
    IF ~collect
    THEN [panic |-> FALSE, stack |-> Pop(stack), tree |-> tree,
          parent_count |-> parent_count, counter |-> counter]
    ELSE [panic |-> FALSE, stack |-> Pop(stack), tree |-> Append(tree, Last(stack)),
          parent_count |-> parent_count, counter |-> counter + 1]

\* CollectorStorage::advance for () and for CollectToVec.
advance ==
    IF ~collect
    THEN [panic |-> FALSE, stack |-> Pop(stack), tree |-> tree,
          parent_count |-> parent_count, counter |-> counter]
    ELSE [c \in {"counter"} |-> counter + 1] @@
         AdvanceLoop(counter + 1, Pop(stack), Append(tree, Last(stack)), parent_count)

\* A verify_hash that does not compare the hash with the expected one.
verify_hash_unchecked(hash) ==
    LET same == [stack |-> stack, tree |-> tree, parent_count |-> parent_count,
                 counter |-> counter]
    IN  IF is_finished THEN [result |-> "Terminated"] @@ same
        ELSE IF stack = <<>> THEN [result |-> "Panic"] @@ same
        ELSE LET a == advance
             IN  IF a.panic THEN [result |-> "Panic"] @@ same
                 ELSE [result |-> "Ok", stack |-> a.stack, tree |-> a.tree,
                       parent_count |-> a.parent_count, counter |-> a.counter]

\* verify_hash: the result of the call and the verifier after it.
verify_hash(hash) ==
    LET same == [stack |-> stack, tree |-> tree, parent_count |-> parent_count,
                 counter |-> counter]
    IN  IF is_finished THEN [result |-> "Terminated"] @@ same
        ELSE IF stack = <<>> THEN [result |-> "Panic"] @@ same
        ELSE IF hash # Last(stack) THEN [result |-> "HashMismatch"] @@ same
        ELSE LET a == advance
             IN  IF a.panic THEN [result |-> "Panic"] @@ same
                 ELSE [result |-> "Ok", stack |-> a.stack, tree |-> a.tree,
                       parent_count |-> a.parent_count, counter |-> a.counter]

VerInit ==
    /\ collect \in BOOLEAN
    /\ overflow_checks \in BOOLEAN
    /\ seeded = <<>>
    /\ stack = <<>>
    /\ parent_count = 0
    /\ counter = 0
    /\ tree = <<>>
    /\ last_result = "none"
    /\ accepted = <<>>

Alive == last_result \notin {"Panic", "AssertionFailed"}

\* IncrementalVerifier::set_root_hash(hash)
SetRootHash ==
    /\ Alive
    /\ Len(seeded) < MaxSeeds
    /\ \E hash \in Roots :
         /\ seeded' = Append(seeded, hash)
         /\ IF parent_count # 0
            THEN last_result' = "AssertionFailed" /\ stack' = stack
            ELSE last_result' = "Ok" /\ stack' = Append(stack, hash)
    /\ UNCHANGED <<collect, overflow_checks, parent_count, counter, tree, accepted, appVars, bcVars, hsVars, extVars>>

\* IncrementalVerifier::feed_proof(proof)
FeedProof ==
    /\ Alive
    /\ \E proof \in Proofs :
         LET r == feed_proof(proof)
         IN  /\ last_result' = r.result
             /\ stack' = r.stack
             /\ parent_count' = r.parent_count
    /\ UNCHANGED <<collect, overflow_checks, seeded, counter, tree, accepted, appVars, bcVars, hsVars, extVars>>

\* IncrementalVerifier::verify_hash(hash), for the hash of a received block
VerifyHash ==
    /\ Alive
    /\ \E hash \in BlockHashes :
         LET r == verify_hash(hash)
         IN  /\ last_result' = r.result
             /\ stack' = r.stack
             /\ parent_count' = r.parent_count
             /\ counter' = r.counter
             /\ tree' = r.tree
             /\ accepted' = IF r.result = "Ok" THEN Append(accepted, hash) ELSE accepted
    /\ UNCHANGED <<collect, overflow_checks, seeded, appVars, bcVars, hsVars, extVars>>

(***************************************************************************)
(* Properties of the verifier                                              *)
(***************************************************************************)
VerificationErrors == {"InvalidProofSize", "InvalidProofWalk", "HashMismatch", "Terminated"}

\* C6: a call of feed_proof or verify_hash that returns an error leaves the
\* expected-hash stack and parent_count (and the collector) as they were
\* before the call.
C6_ErrorLeavesVerifierUnchanged ==
    [][last_result' \in VerificationErrors =>
          /\ stack' = stack
          /\ parent_count' = parent_count
          /\ counter' = counter
          /\ tree' = tree
          /\ accepted' = accepted]_vars

\* A proof was rejected at its final comparison while hashes were pending.
W_C6 ==
    /\ last_result = "HashMismatch"
    /\ Len(stack) >= 2
    /\ accepted # <<>>

\* The position of a block hash of the model's trees.
PositionOf(h) == h[2]

\* C7: with the verifier seeded once with the root of a tree, every hash that
\* verify_hash accepted is a leaf of that tree, the accepted leaves come at
\* increasing positions, and a collecting verifier accepts leaf i as its
\* (i+1)-th hash; no other hash is accepted.
C7_AcceptedAreLeavesOfRoot ==
    Len(seeded) = 1 =>
        LET leaves == LeavesOf(seeded[1])
        IN  /\ \A i \in 1 .. Len(accepted) :
                 /\ PositionOf(accepted[i]) < Len(leaves)
                 /\ accepted[i] = leaves[PositionOf(accepted[i]) + 1]
                 /\ collect => PositionOf(accepted[i]) = i - 1
            /\ \A i, j \in 1 .. Len(accepted) :
                 i < j => PositionOf(accepted[i]) < PositionOf(accepted[j])

\* All leaves of a three-leaf tree were accepted and the verifier finished.
W_C7 ==
    /\ Len(seeded) = 1
    /\ Len(accepted) = 3
    /\ last_result = "Ok"
    /\ is_finished

VerNext == SetRootHash \/ FeedProof \/ VerifyHash


\* C20: a call of set_root_hash on a verifier that was already given a root
\* panics and leaves the stack of expected hashes as it is.
C20_SecondSetRootHashPanics ==
    [][(Len(seeded') > Len(seeded) /\ Len(seeded) >= 1) =>
          (last_result' = "AssertionFailed" /\ stack' = stack)]_vars

(***************************************************************************)
(* Verifier walk over a whole tree (verifier tests::demo)                  *)
(*                                                                         *)
(* A verifier is seeded with the root of the tree over n leaves and is     *)
(* given, leaf by leaf from leaf 0, the proof generated for the leaf and   *)
(* then the leaf's hash.  A proof generated for a walk from leaf 0 holds   *)
(* no flipped entry: it is the leftmost path of the largest subtree that   *)
(* begins at the leaf, from the leaf upwards, and is empty when that       *)
(* subtree is the leaf itself.                                             *)
(***************************************************************************)
MaxDemoLeaves == 4

NoDemo == [n |-> 0, next |-> 0, fed |-> FALSE]

\* the largest subtree of h, whose first leaf is lo, that begins at leaf index
RECURSIVE SubtreeFrom(_, _, _)
SubtreeFrom(h, lo, index) ==
    IF IsLeaf(h) \/ lo = index THEN h
    ELSE LET mid == lo + Len(LeavesOf(h[2]))
         IN  IF index < mid THEN SubtreeFrom(h[2], lo, index) ELSE SubtreeFrom(h[3], mid, index)

\* the leftmost leaf of h, then the right sibling at every level up to h
RECURSIVE LeftmostPath(_)
LeftmostPath(h) ==
    IF IsLeaf(h[2]) THEN <<h[2], h[3]>> ELSE Append(LeftmostPath(h[2]), h[3])

\* HashTree::generate_proof(Mode::from_is_initial(index == 0), index) on the tree over n leaves
generate_proof(n, index) ==
    LET sub == SubtreeFrom(RootOf(n), 0, index)
    IN  IF IsLeaf(sub) THEN <<>>
        ELSE [i \in 1 .. Len(LeftmostPath(sub)) |-> [flip |-> FALSE, hash |-> LeftmostPath(sub)[i]]]

\* the hash tree: the post-order linearization of the tree
RECURSIVE PostOrder(_)
PostOrder(h) == IF IsLeaf(h) THEN <<h>> ELSE PostOrder(h[2]) \o PostOrder(h[3]) \o <<h>>

\* IncrementalVerifier::<CollectToVec>::finalize
finalize ==
    IF ~is_finished
    THEN [panic |-> TRUE, stack |-> stack, tree |-> tree]
    ELSE [panic |-> FALSE, stack |-> <<>>, tree |-> tree \o Reverse(stack)]

DemoInit == VerInit /\ demo = NoDemo

Usable == Alive /\ last_result # "Finalized"

DemoSetRootHash ==
    /\ Usable
    /\ demo = NoDemo
    /\ seeded = <<>>
    /\ \E n \in 1 .. MaxDemoLeaves :
         /\ demo' = [n |-> n, next |-> 0, fed |-> FALSE]
         /\ seeded' = <<RootOf(n)>>
         /\ IF parent_count # 0
            THEN last_result' = "AssertionFailed" /\ stack' = stack
            ELSE last_result' = "Ok" /\ stack' = Append(stack, RootOf(n))
    /\ UNCHANGED <<collect, overflow_checks, parent_count, counter, tree, accepted>>
    /\ UNCHANGED outsideDemo

DemoFeedProof ==
    /\ Usable
    /\ demo.n > 0
    /\ demo.next < demo.n
    /\ ~demo.fed
    /\ LET r == feed_proof(generate_proof(demo.n, demo.next))
       IN  /\ last_result' = r.result
           /\ stack' = r.stack
           /\ parent_count' = r.parent_count
    /\ demo' = [demo EXCEPT !.fed = TRUE]
    /\ UNCHANGED <<collect, overflow_checks, seeded, counter, tree, accepted>>
    /\ UNCHANGED outsideDemo

DemoVerifyHash ==
    /\ Usable
    /\ demo.n > 0
    /\ demo.fed
    /\ LET hash == Leaf(demo.next)
           r == verify_hash(hash)
       IN  /\ last_result' = r.result
           /\ stack' = r.stack
           /\ parent_count' = r.parent_count
           /\ counter' = r.counter
           /\ tree' = r.tree
           /\ accepted' = IF r.result = "Ok" THEN Append(accepted, hash) ELSE accepted
    /\ demo' = [demo EXCEPT !.next = @ + 1, !.fed = FALSE]
    /\ UNCHANGED <<collect, overflow_checks, seeded>>
    /\ UNCHANGED outsideDemo

DemoFinalize ==
    /\ Usable
    /\ collect
    /\ demo.n > 0
    /\ ~demo.fed
    /\ LET f == finalize
       IN  /\ last_result' = IF f.panic THEN "AssertionFailed" ELSE "Finalized"
           /\ stack' = f.stack
           /\ tree' = f.tree
    /\ UNCHANGED <<collect, overflow_checks, seeded, parent_count, counter, accepted, demo>>
    /\ UNCHANGED outsideDemo

DemoNext == DemoSetRootHash \/ DemoFeedProof \/ DemoVerifyHash \/ DemoFinalize

\* C21: in the walk of a collecting verifier over the tree of n leaves every
\* feed_proof and verify_hash is accepted, is_finished holds exactly when
\* all n leaves were verified, and finalize after the last leaf returns the
\* post-order hash tree of the 2n-1 hashes (it panics before).
C21_WalkCollectsPostOrderTree ==
    [][(collect /\ demo'.n > 0) =>
          /\ (demo' # demo) => last_result' = "Ok"
          /\ (last_result' = "Ok") => (is_finished' <=> demo'.next = demo'.n)
          /\ (demo' = demo) =>
                IF demo.next = demo.n
                THEN /\ last_result' = "Finalized"
                     /\ tree' = PostOrder(RootOf(demo.n))
                     /\ Len(tree') = 2 * demo.n - 1
                ELSE last_result' = "AssertionFailed" /\ tree' = tree]_vars

\* the walk over the largest tree, which needs a continuation proof that is
\* not empty, was finalized
W_C21 ==
    /\ collect
    /\ demo = [n |-> MaxDemoLeaves, next |-> MaxDemoLeaves, fed |-> FALSE]
    /\ last_result = "Finalized"
    /\ Len(tree) = 2 * MaxDemoLeaves - 1
    /\ generate_proof(MaxDemoLeaves, 2) # <<>>

(***************************************************************************)
(* Broadcast event loop                                                    *)
(***************************************************************************)
NumRegistered == 3
NumPayloads == 2
MaxFrames == 2

\* Public keys are 1..NumRegistered+1; the last one is of no registered node.
Keys == 1..(NumRegistered + 1)
NoKey == 0
Indices == 0..NumRegistered
NoIndex == -1
current_node_index == 0
Topics == {"Consensus", "DistributedHashTable", "Debug"}
Payloads == 1..NumPayloads

topic_to_index(topic) ==
    CASE topic = "Consensus" -> 0
      [] topic = "DistributedHashTable" -> 1
      [] topic = "Debug" -> 2

\* MessageRing::new(2048), MessageRing::new(512), MessageRing::new(1)
RingCapacity(topic_index) ==
    CASE topic_index = 0 -> 2048
      [] topic_index = 1 -> 512
      [] topic_index = 2 -> 1

\* Message::to_digest: the transcript holds the topic and the payload.
to_digest(msg) == <<msg.topic, msg.payload>>

\* A signature is the key whose secret signed, and the digest that was signed.
sign(key, digest) == [signer |-> key, digest |-> digest]
verify(pk, signature, digest) == signature = sign(pk, digest)

\* sqr.index_to_pubkey and sqr.pubkey_to_index
index_to_pubkey(index) == IF index \in DOMAIN state_pk THEN state_pk[index] ELSE NoKey
pubkey_to_index(pk) ==
    IF \E i \in DOMAIN state_pk : state_pk[i] = pk
    THEN CHOOSE i \in DOMAIN state_pk : state_pk[i] = pk
    ELSE NoIndex

get_node_pk(index) == index_to_pubkey(index)

\* Context::get_node_index: the peers table first, then the application.
get_node_index(pk) == IF pk \in DOMAIN peers THEN peers[pk] ELSE pubkey_to_index(pk)

\* Stats::report(index, ConnectionStats { invalid_messages_received_from_peer: 1, .. })
report_invalid(st, index) == [st EXCEPT ![index] = @ + 1]

\* MessageRing::insert: the two large rings evict the oldest entry when
\* full, the Debug ring refuses the new one.
ring_insert(ring, topic_index, shared) ==
    IF Len(ring) < RingCapacity(topic_index) THEN Append(ring, shared)
    ELSE IF topic_index = 2 THEN ring
    ELSE Append(Tail(ring), shared)

\* A handle_message that skips the signature check.
handle_message_unverified(sender, msg) ==
    IF get_node_pk(msg.origin) = NoKey
    THEN IF get_node_index(sender) = NoIndex
         THEN [panic |-> TRUE, rings |-> rings, stats |-> stats]
         ELSE [panic |-> FALSE, rings |-> rings,
               stats |-> report_invalid(stats, get_node_index(sender))]
    ELSE LET topic_index == topic_to_index(msg.topic)
             shared == [digest |-> to_digest(msg), origin |-> msg.origin,
                        payload |-> msg.payload]
         IN  [panic |-> FALSE,
              rings |-> [rings EXCEPT ![topic_index] = ring_insert(@, topic_index, shared)],
              stats |-> stats]

\* Context::handle_message: the rings and the stats after the call.
handle_message(sender, msg) ==
    LET origin_pk == get_node_pk(msg.origin)
        digest == to_digest(msg)
        index == get_node_index(sender)
        reported == IF index = NoIndex
                    THEN [panic |-> TRUE, rings |-> rings, stats |-> stats]
                    ELSE [panic |-> FALSE, rings |-> rings,
                          stats |-> report_invalid(stats, index)]
    IN  IF origin_pk = NoKey THEN reported
        ELSE IF ~verify(origin_pk, msg.signature, digest) THEN reported
        ELSE LET topic_index == topic_to_index(msg.topic)
                 shared == [digest |-> digest, origin |-> msg.origin,
                            payload |-> msg.payload]
             IN  [panic |-> FALSE,
                  rings |-> [rings EXCEPT ![topic_index] = ring_insert(@, topic_index, shared)],
                  stats |-> stats]

\* The signatures a frame can carry: any key over the digest of the message
\* or over the digest of the same topic's next payload.
OtherPayload(payload) == (payload % NumPayloads) + 1
Messages ==
    { [origin |-> o, signature |-> sign(k, <<t, q>>), topic |-> t, payload |-> p] :
        <<o, k, t, p, q>> \in
            { x \in Indices \X Keys \X Topics \X Payloads \X Payloads :
                x[5] \in {x[4], OtherPayload(x[4])} } }

NoFrame == <<>>

BcInit ==
    /\ peers = <<>>
    /\ rings = [i \in 0..2 |-> <<>>]
    /\ stats = [i \in Indices |-> 0]
    /\ state_pk = [i \in 0..(NumRegistered - 1) |-> i + 1]
    /\ received = NoFrame
    /\ frame_count = 0
    /\ has = [pk \in Keys |-> <<>>]
    /\ interned = <<>>
    /\ db = <<>>
    /\ sent = EmptyBag
    /\ advr_log = EmptyBag

\* main_loop: a connection from the connector or the listener.  A key that
\* resolves to no index is skipped; Peers::handle_new_connection keeps an
\* existing entry.
HandleNewConnection ==
    \E pk \in Keys \ {state_pk[current_node_index]} :
        LET index == get_node_index(pk)
        IN  /\ peers' = IF index = NoIndex \/ pk \in DOMAIN peers
                        THEN peers
                        ELSE [k \in DOMAIN peers \cup {pk} |->
                                 IF k = pk THEN index ELSE peers[k]]
            /\ has' = IF index = NoIndex \/ pk \in DOMAIN peers
                      THEN has
                      ELSE [has EXCEPT ![pk] = <<>>]
            /\ UNCHANGED <<rings, stats, state_pk, received, frame_count>>
            /\ UNCHANGED <<interned, db, sent, advr_log>>
            /\ UNCHANGED <<appVars, verVars, hsVars, extVars>>

\* Peers::handle_disconnect
HandleDisconnect ==
    \E pk \in DOMAIN peers :
        /\ peers' = [k \in DOMAIN peers \ {pk} |-> peers[k]]
        /\ has' = [has EXCEPT ![pk] = <<>>]
        /\ UNCHANGED <<rings, stats, state_pk, received, frame_count>>
        /\ UNCHANGED <<interned, db, sent, advr_log>>
        /\ UNCHANGED <<appVars, verVars, hsVars, extVars>>

\* main_loop: peers.recv() returned a Message frame of a connected peer;
\* handle_frame passes it to handle_message.
HandleMessage ==
    \E sender \in DOMAIN peers, msg \in Messages :
        LET r == handle_message(sender, msg)
        IN  /\ frame_count < MaxFrames
            /\ ~r.panic
            /\ rings' = r.rings
            /\ stats' = r.stats
            /\ received' = <<[sender |-> sender, msg |-> msg]>>
            /\ frame_count' = frame_count + 1
            /\ UNCHANGED <<peers, state_pk>>
            /\ UNCHANGED <<has, interned, db, sent, advr_log>>
            /\ UNCHANGED <<appVars, verVars, hsVars, extVars>>

BcNext == HandleNewConnection \/ HandleDisconnect \/ HandleMessage

\* ---- properties of the broadcast ----

\* The message's origin resolves and its signature verifies over its digest.
OriginVerifies(msg) ==
    /\ index_to_pubkey(msg.origin) # NoKey
    /\ verify(index_to_pubkey(msg.origin), msg.signature, to_digest(msg))

FrameHandled == frame_count' = frame_count + 1

\* C8: a received Message whose origin does not resolve or whose signature
\* does not verify is put into no ring, and adds exactly one to the invalid
\* counter of the peer that delivered it (and to no other counter).
C8_InvalidMessageDroppedAndCounted ==
    [][(FrameHandled /\ ~OriginVerifies(received'[1].msg)) =>
          /\ rings' = rings
          /\ \A i \in Indices :
                stats'[i] = stats[i] + (IF i = peers[received'[1].sender] THEN 1 ELSE 0)]_vars

\* Two peers are connected, the second one delivered an invalid message
\* after a valid one had been inserted.
W_C8 ==
    /\ received # NoFrame
    /\ ~OriginVerifies(received[1].msg)
    /\ index_to_pubkey(received[1].msg.origin) # NoKey
    /\ Cardinality(DOMAIN peers) = 2
    /\ stats[peers[received[1].sender]] = 1
    /\ rings[0] # <<>>


(***************************************************************************)
(* Broadcast event loop: advertisements, wants and send commands           *)
(***************************************************************************)
MaxInterned == 1
MaxSent == 2

InternedIds == 0..MaxInterned
Digests == Topics \X Payloads
Advrs == [interned_id : InternedIds, digest : Digests]
Wants == [interned_id : InternedIds]

AdvrFrame(advr) == [kind |-> "Advr", interned_id |-> advr.interned_id, digest |-> advr.digest]
WantFrame(id) == [kind |-> "Want", interned_id |-> id]
MessageFrame(msg) == [kind |-> "Message", msg |-> msg]

\* Request::SendMessage { peer, message } given to endpoint_tx
SendRequest(pk, frame) == [peer |-> pk, frame |-> frame]

\* Interner::get and Interner::insert: a digest keeps the id of its first sight.
interner_get(id) == IF id + 1 \in DOMAIN interned THEN <<interned[id + 1]>> ELSE <<>>
interner_id(digest) == CHOOSE id \in 0..(Len(interned) - 1) : interned[id + 1] = digest
interner_insert(digest) ==
    IF \E i \in DOMAIN interned : interned[i] = digest
    THEN [interned |-> interned, id |-> interner_id(digest)]
    ELSE [interned |-> Append(interned, digest), id |-> Len(interned)]

\* Database::get_message and Database::insert_with_message
db_get_message(digest) == IF digest \in DOMAIN db THEN <<db[digest]>> ELSE <<>>
db_insert_with_message(digest, message) ==
    [d \in DOMAIN db \cup {digest} |-> IF d = digest THEN message ELSE db[d]]

\* Peers::insert_index_mapping
insert_index_mapping(h, remote, local_index, remote_index) ==
    IF remote \notin DOMAIN peers THEN h
    ELSE [h EXCEPT ![remote] =
             [k \in DOMAIN h[remote] \cup {local_index} |->
                 IF k = local_index THEN remote_index ELSE h[remote][k]]]

\* Peers::send_want_request and Peers::send_message: nothing is sent to a
\* peer that is not in the table.
send_want_request(out, remote, remote_index) ==
    IF remote \notin DOMAIN peers THEN out
    ELSE out (+) SetToBag({SendRequest(remote, WantFrame(remote_index))})
send_message(out, remote, frame) ==
    IF remote \notin DOMAIN peers THEN out
    ELSE out (+) SetToBag({SendRequest(remote, frame)})

\* Peers::advertise: to every connected peer that is not known to have id.
advertise(out, id, digest) ==
    out (+) SetToBag({ SendRequest(pk, AdvrFrame([interned_id |-> id, digest |-> digest])) :
                          pk \in {k \in DOMAIN peers : id \notin DOMAIN has[k]} })

\* A handle_advr that asks for every advertised message.
handle_advr_always_want(sender, advr) ==
    [has |-> has, interned |-> interned,
     sent |-> send_want_request(sent, sender, advr.interned_id)]

\* Context::handle_advr: the body of the function is empty.
handle_advr(sender, advr) == [has |-> has, interned |-> interned, sent |-> sent]

\* Context::handle_want
handle_want(sender, req) ==
    LET id == req.interned_id
        digest == interner_get(id)
    IN  IF digest = <<>> THEN sent
        ELSE LET message == db_get_message(digest[1])
             IN  IF message = <<>> THEN sent
                 ELSE send_message(sent, sender, MessageFrame(message[1]))

\* main_loop: peers.recv() returned an Advr frame of a connected peer.
HandleAdvrOf(sender, advr) ==
    LET r == handle_advr(sender, advr)
    IN  /\ frame_count < MaxFrames
        /\ BagCardinality(r.sent) <= MaxSent
        /\ has' = r.has
        /\ interned' = r.interned
        /\ sent' = r.sent
        /\ received' = <<[sender |-> sender, advr |-> advr]>>
        /\ advr_log' = advr_log (+) SetToBag({[sender |-> sender, advr |-> advr]})
        /\ frame_count' = frame_count + 1
        /\ UNCHANGED <<peers, rings, stats, state_pk, db>>
        /\ UNCHANGED <<appVars, verVars, hsVars, extVars>>

HandleAdvr == \E sender \in DOMAIN peers, advr \in Advrs : HandleAdvrOf(sender, advr)

\* main_loop: peers.recv() returned a Want frame of a connected peer.
HandleWant ==
    \E sender \in DOMAIN peers, req \in Wants :
        /\ frame_count < MaxFrames
        /\ BagCardinality(handle_want(sender, req)) <= MaxSent
        /\ sent' = handle_want(sender, req)
        /\ received' = <<[sender |-> sender, want |-> req]>>
        /\ frame_count' = frame_count + 1
        /\ UNCHANGED <<peers, rings, stats, state_pk, has, interned, db, advr_log>>
        /\ UNCHANGED <<appVars, verVars, hsVars, extVars>>

\* handle_command(Command::Send(cmd)): sign, intern, store and advertise.
HandleSendCmd ==
    \E topic \in Topics, payload \in Payloads :
        LET digest == <<topic, payload>>
            message == [origin |-> current_node_index,
                        signature |-> sign(state_pk[current_node_index], digest),
                        topic |-> topic, payload |-> payload]
            i == interner_insert(digest)
        IN  /\ Len(i.interned) <= MaxInterned
            /\ BagCardinality(advertise(sent, i.id, digest)) <= MaxSent
            /\ interned' = i.interned
            /\ db' = db_insert_with_message(digest, message)
            /\ sent' = advertise(sent, i.id, digest)
            /\ UNCHANGED <<peers, rings, stats, state_pk, received, frame_count, has, advr_log>>
            /\ UNCHANGED <<appVars, verVars, hsVars, extVars>>

GossipNext ==
    \/ HandleNewConnection
    \/ HandleDisconnect
    \/ HandleAdvr
    \/ HandleWant
    \/ HandleSendCmd

\* ---- properties of the gossip ----

\* The digest is known to this node: its message is in the database.
Seen(digest) == digest \in DOMAIN db

WantsSentTo(out, pk, id) ==
    IF SendRequest(pk, WantFrame(id)) \in BagToSet(out)
    THEN CopiesIn(SendRequest(pk, WantFrame(id)), out)
    ELSE 0

\* C11: an Advr(id, digest) of a connected peer whose digest was not seen
\* before records that the peer has the id and sends it one Want(id); for a
\* digest seen before, nothing is sent.
C11_AdvrOfUnseenDigestIsWanted ==
    [][\A sender \in Keys, advr \in Advrs :
          (FrameHandled /\ HandleAdvrOf(sender, advr)) =>
              IF ~Seen(advr.digest)
              THEN /\ \E local \in DOMAIN has'[sender] :
                         has'[sender][local] = advr.interned_id
                   /\ WantsSentTo(sent', sender, advr.interned_id)
                         = WantsSentTo(sent, sender, advr.interned_id) + 1
              ELSE sent' = sent]_vars

MaxTopologies == 2

\* the suggested connections, flattened
Topologies == SUBSET (Keys \ {state_pk[current_node_index]})

\* Peers::get_connection_status
get_connection_status(pk) == IF pk \in DOMAIN peers THEN "Open" ELSE "Closed"

\* Peers::unpin_all
unpin_all == {}

\* Peers::pin_peer
pin_peer(pins, pk) == pins \cup {pk}

\* Peers::disconnect_unpinned: the body is empty
disconnect_unpinned(pins, conns) == conns

TpInit ==
    /\ pinned = {}
    /\ connecting = [pk \in Keys |-> 0]
    /\ applied = 0

\* Context::apply_topology
ApplyTopologyOf(new_topology) ==
    /\ applied < MaxTopologies
    /\ applied' = applied + 1
    /\ pinned' = unpin_all \cup new_topology
    /\ connecting' = [pk \in Keys |->
                         IF pk \in new_topology /\ get_connection_status(pk) = "Closed"
                         THEN connecting[pk] + 1
                         ELSE connecting[pk]]
    /\ peers' = disconnect_unpinned(pinned', peers)
    /\ UNCHANGED <<rings, stats, state_pk, received, frame_count, has, interned, db, sent, advr_log>>
    /\ UNCHANGED outsideTopology

ApplyTopology == \E new_topology \in Topologies : ApplyTopologyOf(new_topology)

\* a spawned connect task ends: without a connection, or with one that the
\* main loop takes from new_outgoing_connection_rx
ConnectorDone ==
    \E pk \in Keys, connected \in BOOLEAN :
        LET index == get_node_index(pk)
            skip == ~connected \/ index = NoIndex \/ pk \in DOMAIN peers
        IN  /\ connecting[pk] > 0
            /\ connecting' = [connecting EXCEPT ![pk] = @ - 1]
            /\ peers' = IF skip THEN peers
                        ELSE [k \in DOMAIN peers \cup {pk} |-> IF k = pk THEN index ELSE peers[k]]
            /\ has' = IF skip THEN has ELSE [has EXCEPT ![pk] = <<>>]
            /\ UNCHANGED <<pinned, applied>>
            /\ UNCHANGED <<rings, stats, state_pk, received, frame_count, interned, db, sent, advr_log>>
            /\ UNCHANGED outsideTopology

TopologyNext == ApplyTopology \/ ConnectorDone \/ HandleNewConnection \/ HandleDisconnect

\* C22: applying a topology pins every suggested peer, starts a connection
\* attempt for every suggested peer without a connection, and moves every
\* connected peer that is not suggested into the closing state.
C22_TopologyApplied ==
    [][\A new_topology \in Topologies :
          ApplyTopologyOf(new_topology) =>
             /\ new_topology \subseteq pinned'
             /\ \A pk \in new_topology :
                   pk \notin DOMAIN peers => connecting'[pk] = connecting[pk] + 1
             /\ \A pk \in DOMAIN peers \ new_topology :
                   get_connection_status(pk)' = "Closing"]_vars

\* what apply_topology does: the pins are exactly the suggested peers, an
\* attempt is started exactly for the suggested peers without a connection,
\* and no connection changes
C22_PinsAndAttempts ==
    [][\A new_topology \in Topologies :
          ApplyTopologyOf(new_topology) =>
             /\ pinned' = new_topology
             /\ \A pk \in Keys :
                   connecting'[pk] = connecting[pk] +
                       (IF pk \in new_topology /\ pk \notin DOMAIN peers THEN 1 ELSE 0)
             /\ peers' = peers]_vars

(***************************************************************************)
(* Handshake context                                                       *)
(***************************************************************************)
MaxConnections == 2
NumSecrets == 2
MaxTtl == 1
MaxNow == 61

ConnectionIds == 0..MaxConnections
Secrets == 1..NumSecrets
Ttls == 0..MaxTtl
TickSteps == {60}

\* u64::to_be_bytes and u64::from_be_bytes
RECURSIVE BeBytes(_, _)
BeBytes(n, len) == IF len = 0 THEN <<>> ELSE Append(BeBytes(n \div 256, len - 1), n % 256)
to_be_bytes(n) == BeBytes(n, 8)
RECURSIVE from_be_bytes(_)
from_be_bytes(bytes) ==
    IF bytes = <<>> THEN 0
    ELSE 256 * from_be_bytes(SubSeq(bytes, 1, Len(bytes) - 1)) + bytes[Len(bytes)]

\* The 48-byte access token: 8 bytes of connection id, then the random
\* bytes, which the model keeps as one element.
\* mutant of AccessToken: the bytes written are those of the counter after fetch_add
AccessTokenOfNextId(connection_id, random) == to_be_bytes(connection_id + 1) \o <<random>>

AccessToken(connection_id, random) == to_be_bytes(connection_id) \o <<random>>
ZeroToken == [i \in 1..9 |-> 0]
Tokens == { AccessToken(id, r) : id \in ConnectionIds, r \in Secrets }

NoCall == [op |-> "none", result |-> "none", token |-> <<>>, ret |-> 0]

\* Context::new
HsInit ==
    /\ connections = <<>>
    /\ connection_counter = 0
    /\ now = 1
    /\ proxy_inbox = <<>>
    /\ hs_last = NoCall

\* DashMap insert and remove
map_insert(map, key, value) ==
    [k \in DOMAIN map \cup {key} |-> IF k = key THEN value ELSE map[k]]
map_remove(map, key) == [k \in DOMAIN map \ {key} |-> map[k]]

\* Handshake { retry: None }: connect to the service, write the header,
\* take an id from the counter, register the entry and spawn the proxy.
HandshakeOf(connected, header_written, random) ==
        /\ connection_counter < MaxConnections
        /\ IF ~connected
           THEN /\ hs_last' = [op |-> "Handshake", result |-> "InvalidService",
                               token |-> <<>>, ret |-> 0]
                /\ UNCHANGED <<connections, connection_counter, proxy_inbox>>
           ELSE IF ~header_written
           THEN /\ hs_last' = [op |-> "Handshake", result |-> "ServiceTerminated",
                               token |-> <<>>, ret |-> 0]
                /\ UNCHANGED <<connections, connection_counter, proxy_inbox>>
           ELSE LET connection_id == connection_counter
                    access_token == AccessToken(connection_id, random)
                IN  /\ connection_counter' = connection_counter + 1
                    /\ connections' = map_insert(connections, connection_id,
                                          [access_token |-> access_token, timeout |-> 0])
                    /\ proxy_inbox' = map_insert(proxy_inbox, connection_id, <<>>)
                    /\ hs_last' = [op |-> "Handshake", result |-> "Spawned",
                                   token |-> <<>>, ret |-> connection_id]
        /\ UNCHANGED now
        /\ UNCHANGED <<appVars, verVars, bcVars, extVars>>

Handshake ==
    \E connected \in BOOLEAN, header_written \in BOOLEAN, random \in Secrets :
        HandshakeOf(connected, header_written, random)

\* A join that does not compare the token with the stored one.
join_request_id_only(access_token) ==
    LET connection_id == from_be_bytes(SubSeq(access_token, 1, 8))
    IN  IF connection_id \notin DOMAIN connections
        THEN [result |-> "InvalidToken", id |-> connection_id]
        ELSE IF connections[connection_id].timeout < now
        THEN [result |-> "InvalidToken", id |-> connection_id]
        ELSE [result |-> "Forwarded", id |-> connection_id]

\* JoinRequest { access_token }: the checks before the pair is sent.
join_request(access_token) ==
    LET connection_id == from_be_bytes(SubSeq(access_token, 1, 8))
    IN  IF connection_id \notin DOMAIN connections
        THEN [result |-> "InvalidToken", id |-> connection_id]
        ELSE IF connections[connection_id].access_token # access_token
        THEN [result |-> "InvalidToken", id |-> connection_id]
        ELSE IF connections[connection_id].timeout < now
        THEN [result |-> "InvalidToken", id |-> connection_id]
        ELSE [result |-> "Forwarded", id |-> connection_id]

\* connection_sender.send((is_primary, pair)) on the bounded(1) channel:
\* the send completes once the channel has room.
HasRoom(id) == Len(proxy_inbox[id]) < 1
Send(id, is_primary) == [proxy_inbox EXCEPT ![id] = Append(@, is_primary)]

JoinRequestOf(access_token) ==
    LET r == join_request(access_token)
    IN  /\ IF r.result = "Forwarded"
           THEN /\ HasRoom(r.id)
                /\ proxy_inbox' = Send(r.id, FALSE)
           ELSE UNCHANGED proxy_inbox
        /\ hs_last' = [op |-> "JoinRequest", result |-> r.result,
                       token |-> <<>>, ret |-> r.id]
        /\ UNCHANGED <<connections, connection_counter, now>>
        /\ UNCHANGED <<appVars, verVars, bcVars, extVars>>

JoinRequest == \E access_token \in Tokens : JoinRequestOf(access_token)

\* Handshake { retry: Some(id) }
\* mutant of HandshakeRetryOf: the pair is sent as a secondary connection
HandshakeRetryAsSecondary(id) ==
        /\ IF id \notin DOMAIN connections
           THEN /\ hs_last' = [op |-> "Retry", result |-> "InvalidToken",
                               token |-> <<>>, ret |-> id]
                /\ UNCHANGED proxy_inbox
           ELSE /\ HasRoom(id)
                /\ proxy_inbox' = Send(id, FALSE)
                /\ hs_last' = [op |-> "Retry", result |-> "Forwarded",
                               token |-> <<>>, ret |-> id]
        /\ UNCHANGED <<connections, connection_counter, now>>
        /\ UNCHANGED <<appVars, verVars, bcVars, extVars>>

HandshakeRetryOf(id) ==
        /\ IF id \notin DOMAIN connections
           THEN /\ hs_last' = [op |-> "Retry", result |-> "InvalidToken",
                               token |-> <<>>, ret |-> id]
                /\ UNCHANGED proxy_inbox
           ELSE /\ HasRoom(id)
                /\ proxy_inbox' = Send(id, TRUE)
                /\ hs_last' = [op |-> "Retry", result |-> "Forwarded",
                               token |-> <<>>, ret |-> id]
        /\ UNCHANGED <<connections, connection_counter, now>>
        /\ UNCHANGED <<appVars, verVars, bcVars, extVars>>

HandshakeRetry == \E id \in ConnectionIds : HandshakeRetryOf(id)

\* extend_access_token: the entry's new timeout and the returned pair.
extend_access_token(connection_id, ttl) ==
    IF connection_id \notin DOMAIN connections
    THEN [connections |-> connections, token |-> ZeroToken, ttl |-> 0]
    ELSE LET connection == connections[connection_id]
             new_timeout == now + (ttl * 60)
             timeout == Max(connection.timeout, new_timeout)
         IN  [connections |-> [connections EXCEPT ![connection_id].timeout = timeout],
              token |-> connection.access_token,
              ttl |-> (timeout - now) \div 60]

ExtendAccessTokenOf(connection_id, ttl) ==
    LET r == extend_access_token(connection_id, ttl)
    IN  /\ connections' = r.connections
        /\ hs_last' = [op |-> "Extend", result |-> "Returned",
                       token |-> r.token, ret |-> r.ttl]
        /\ UNCHANGED <<connection_counter, now, proxy_inbox>>
        /\ UNCHANGED <<appVars, verVars, bcVars, extVars>>

ExtendAccessToken ==
    \E connection_id \in ConnectionIds, ttl \in Ttls :
        ExtendAccessTokenOf(connection_id, ttl)

\* cleanup_connection: the proxy is gone, and its receiver with it.
CleanupConnection ==
    \E connection_id \in DOMAIN connections :
        /\ connections' = map_remove(connections, connection_id)
        /\ proxy_inbox' = map_remove(proxy_inbox, connection_id)
        /\ UNCHANGED <<connection_counter, now, hs_last>>
        /\ UNCHANGED <<appVars, verVars, bcVars, extVars>>

\* The proxy of a session takes the next pair from its channel.
ProxyRecv ==
    \E id \in DOMAIN proxy_inbox :
        /\ proxy_inbox[id] # <<>>
        /\ proxy_inbox' = [proxy_inbox EXCEPT ![id] = Tail(@)]
        /\ UNCHANGED <<connections, connection_counter, now, hs_last>>
        /\ UNCHANGED <<appVars, verVars, bcVars, extVars>>

\* SystemTime::now() moves on.
Tick ==
    \E d \in TickSteps :
        /\ now + d <= MaxNow
        /\ now' = now + d
        /\ UNCHANGED <<connections, connection_counter, proxy_inbox, hs_last>>
        /\ UNCHANGED <<appVars, verVars, bcVars, extVars>>

HsNext ==
    \/ Handshake
    \/ JoinRequest
    \/ HandshakeRetry
    \/ ExtendAccessToken
    \/ CleanupConnection
    \/ ProxyRecv
    \/ Tick

\* ---- properties of the handshake ----

TokenId(access_token) == from_be_bytes(SubSeq(access_token, 1, 8))

\* A step that handles JoinRequest { access_token }.
JoinStep(access_token) == hs_last'.op = "JoinRequest" /\ JoinRequestOf(access_token)

\* A step that runs extend_access_token(id, ttl) on an existing session.
ExtendStep(id, ttl) ==
    hs_last'.op = "Extend" /\ id \in DOMAIN connections /\ ExtendAccessTokenOf(id, ttl)

\* The outcome of a JoinRequest step: rejected with InvalidToken and the
\* pair handed to no proxy, or the pair sent as a secondary stream to the
\* session of the token.
JoinRejected == hs_last'.result = "InvalidToken" /\ proxy_inbox' = proxy_inbox
JoinForwarded(access_token) ==
    /\ hs_last'.result = "Forwarded"
    /\ proxy_inbox' = [proxy_inbox EXCEPT ![TokenId(access_token)] = Append(@, FALSE)]

\* C9 as stated: a JoinRequest is rejected whenever the id is unknown, the
\* token differs from the stored one, or now >= timeout, and forwarded as a
\* secondary stream only otherwise.
C9_RejectAtOrAfterTimeout ==
    [][\A access_token \in Tokens :
          JoinStep(access_token) =>
              LET id == TokenId(access_token)
                  reject == \/ id \notin DOMAIN connections
                            \/ connections[id].access_token # access_token
                            \/ now >= connections[id].timeout
              IN  IF reject THEN JoinRejected ELSE JoinForwarded(access_token)]_vars

\* C9 amended: a JoinRequest is rejected whenever the id is unknown, the
\* token differs from the stored one, or now > timeout, and forwarded as a
\* secondary stream only otherwise (at now = timeout the token still joins).
C9_RejectAfterTimeout ==
    [][\A access_token \in Tokens :
          JoinStep(access_token) =>
              LET id == TokenId(access_token)
                  reject == \/ id \notin DOMAIN connections
                            \/ connections[id].access_token # access_token
                            \/ now > connections[id].timeout
              IN  IF reject THEN JoinRejected ELSE JoinForwarded(access_token)]_vars

\* A join with the stored token was forwarded at the very instant of the
\* session's timeout, after the clock had moved.
W_C9 ==
    /\ hs_last.op = "JoinRequest"
    /\ hs_last.result = "Forwarded"
    /\ hs_last.ret \in DOMAIN connections
    /\ connections[hs_last.ret].timeout = now
    /\ now > 1
    /\ proxy_inbox[hs_last.ret] = <<FALSE>>

\* C10 as stated: extend_access_token on an existing session sets the
\* timeout to max(old, now + ttl * 60000), never earlier than before, and
\* returns the session's token with the remaining lifetime in minutes.
C10_ExtendByMinutes ==
    [][\A id \in ConnectionIds, ttl \in Ttls :
          ExtendStep(id, ttl) =>
              /\ connections'[id].timeout = Max(connections[id].timeout, now + ttl * 60000)
              /\ connections'[id].timeout >= connections[id].timeout
              /\ hs_last'.token = connections[id].access_token
              /\ hs_last'.ret = (connections'[id].timeout - now) \div 60000]_vars

\* A step in which a new Handshake spawns a session.
HandshakeStep(random) == hs_last'.result = "Spawned" /\ HandshakeOf(TRUE, TRUE, random)

\* the first 8 bytes of the token are the id in big-endian order (ids below 256)
BigEndianPrefix(access_token, id) ==
    /\ id < 256
    /\ access_token[8] = id
    /\ \A i \in 1..7 : access_token[i] = 0

\* C18: the connection counter never decreases; a new Handshake that spawns
\* a session takes the counter's value as its id and moves the counter on,
\* the id belongs to no session of the table, and the session's access token
\* is the 8 big-endian bytes of the id followed by the random part; every
\* session of the table has an id below the counter and such a token.
C18_FreshIdInToken ==
    [][/\ connection_counter' >= connection_counter
       /\ \A random \in Secrets :
              HandshakeStep(random) =>
                  LET id == hs_last'.ret
                  IN  /\ id = connection_counter
                      /\ connection_counter' = id + 1
                      /\ id \notin DOMAIN connections
                      /\ DOMAIN connections' = DOMAIN connections \cup {id}
                      /\ \A other \in DOMAIN connections : connections'[other] = connections[other]
                      /\ Len(connections'[id].access_token) = 9
                      /\ BigEndianPrefix(connections'[id].access_token, id)
                      /\ connections'[id].access_token[9] = random
       /\ \A id \in DOMAIN connections' :
              /\ id < connection_counter'
              /\ BigEndianPrefix(connections'[id].access_token, id)]_vars

\* two sessions are in the table, with the ids 0 and 1 in their tokens
W_C18 ==
    /\ hs_last.op = "Handshake"
    /\ hs_last.result = "Spawned"
    /\ hs_last.ret = 1
    /\ connection_counter = 2
    /\ DOMAIN connections = {0, 1}
    /\ connections[0].access_token[8] = 0
    /\ connections[1].access_token[8] = 1

\* A step that handles Handshake { retry: Some(id) }.
RetryStep(id) == hs_last'.op = "Retry" /\ hs_last'.ret = id /\ HandshakeRetryOf(id)

\* C19: a Handshake with retry: Some(id) for a session of the table sends
\* the pair to that session's proxy marked as primary and changes neither
\* the counter nor the table nor any token; for an id without a session it
\* ends with InvalidToken and no proxy receives anything.
C19_RetryReplacesPrimary ==
    [][\A id \in ConnectionIds :
          RetryStep(id) =>
              /\ connection_counter' = connection_counter
              /\ connections' = connections
              /\ IF id \in DOMAIN connections
                 THEN /\ hs_last'.result = "Forwarded"
                      /\ proxy_inbox' = [proxy_inbox EXCEPT ![id] = Append(@, TRUE)]
                 ELSE /\ hs_last'.result = "InvalidToken"
                      /\ proxy_inbox' = proxy_inbox]_vars

\* a retry was forwarded as primary to a session whose token carries its id
W_C19 ==
    /\ hs_last.op = "Retry"
    /\ hs_last.result = "Forwarded"
    /\ hs_last.ret \in DOMAIN connections
    /\ proxy_inbox[hs_last.ret] = <<TRUE>>
    /\ connection_counter = Cardinality(DOMAIN connections)


(***************************************************************************)
(* Handshake: the requester of a frame                                     *)
(*                                                                         *)
(* The Handshake frame carries the client key of the requester.  A new     *)
(* session writes it into the connection header that the service reads;    *)
(* the connection entry holds the channel to the proxy, the access token   *)
(* and the timeout.  Here every frame is kept with the key it carried, so  *)
(* that who replaced the primary connection of a session can be told.      *)
(***************************************************************************)
NumClientKeys == 2
MaxSessions == 2

ClientKeys == 1..NumClientKeys
SessionIds == 0..MaxSessions
NoRequestFrame == [op |-> "none", pk |-> 0, id |-> 0, result |-> "none"]

HfInit ==
    /\ hf_connections = <<>>
    /\ hf_counter = 0
    /\ hf_inbox = <<>>
    /\ hf_primary = <<>>
    /\ hf_last = NoRequestFrame

\* Handshake { retry: None, service, pk, .. }
FrameHandshake ==
    \E pk \in ClientKeys, connected \in BOOLEAN, header_written \in BOOLEAN :
        /\ hf_counter < MaxSessions
        /\ IF ~connected \/ ~header_written
           THEN /\ hf_last' = [op |-> "Handshake", pk |-> pk, id |-> 0,
                               result |-> IF ~connected THEN "InvalidService"
                                          ELSE "ServiceTerminated"]
                /\ UNCHANGED <<hf_connections, hf_counter, hf_inbox, hf_primary>>
           ELSE LET connection_id == hf_counter
                IN  /\ hf_counter' = hf_counter + 1
                    /\ hf_connections' = map_insert(hf_connections, connection_id,
                                             [header_pk |-> pk, timeout |-> 0])
                    /\ hf_inbox' = map_insert(hf_inbox, connection_id, <<>>)
                    /\ hf_primary' = map_insert(hf_primary, connection_id, pk)
                    /\ hf_last' = [op |-> "Handshake", pk |-> pk, id |-> connection_id,
                                   result |-> "Spawned"]
        /\ UNCHANGED outsideFrames

\* Handshake { retry: Some(id), .. }: the other fields of the frame are not read
FrameRetryOf(id, pk) ==
    /\ IF id \notin DOMAIN hf_connections
       THEN /\ hf_last' = [op |-> "Retry", pk |-> pk, id |-> id, result |-> "InvalidToken"]
            /\ UNCHANGED hf_inbox
       ELSE /\ Len(hf_inbox[id]) < 1
            /\ hf_inbox' = [hf_inbox EXCEPT ![id] = Append(@, [is_primary |-> TRUE, pk |-> pk])]
            /\ hf_last' = [op |-> "Retry", pk |-> pk, id |-> id, result |-> "Forwarded"]
    /\ UNCHANGED <<hf_connections, hf_counter, hf_primary>>
    /\ UNCHANGED outsideFrames

FrameRetry == \E id \in SessionIds, pk \in ClientKeys : FrameRetryOf(id, pk)

\* the proxy of the session takes the pair and makes it its primary connection
FrameProxyRecv ==
    \E id \in DOMAIN hf_inbox :
        /\ hf_inbox[id] # <<>>
        /\ hf_inbox' = [hf_inbox EXCEPT ![id] = Tail(@)]
        /\ hf_primary' = IF Head(hf_inbox[id]).is_primary
                         THEN [hf_primary EXCEPT ![id] = Head(hf_inbox[id]).pk]
                         ELSE hf_primary
        /\ hf_last' = [op |-> "ProxyRecv", pk |-> Head(hf_inbox[id]).pk, id |-> id,
                       result |-> "Replaced"]
        /\ UNCHANGED <<hf_connections, hf_counter>>
        /\ UNCHANGED outsideFrames

\* cleanup_connection
FrameCleanup ==
    \E id \in DOMAIN hf_connections :
        /\ hf_connections' = map_remove(hf_connections, id)
        /\ hf_inbox' = map_remove(hf_inbox, id)
        /\ hf_primary' = map_remove(hf_primary, id)
        /\ hf_last' = [op |-> "Cleanup", pk |-> 0, id |-> id, result |-> "Removed"]
        /\ UNCHANGED hf_counter
        /\ UNCHANGED outsideFrames

FramesNext == FrameHandshake \/ FrameRetry \/ FrameProxyRecv \/ FrameCleanup

\* C34: the primary connection of a session is replaced through a retry
\* only by a requester that presents a credential of the session: a retry
\* is sent to the proxy as the new primary only when its frame carries the
\* client key of the session's handshake (the frame has no field for the
\* access token).
C34_RetryNeedsCredential ==
    [][\A id \in SessionIds, pk \in ClientKeys :
          FrameRetryOf(id, pk) /\ hf_last'.result = "Forwarded"
              => pk = hf_connections[id].header_pk]_vars

(***************************************************************************)
(* Handshake: HTTP transport                                               *)
(*                                                                         *)
(* One request.  The handler has made the sender and the receiver, has     *)
(* handed them to the handshake context and waits for the header payload   *)
(* on the body channel, then for the termination channel, and then the     *)
(* body channel is streamed as the response body.  The sender is used by   *)
(* the context and the connection proxy: start_write(len), then writes of  *)
(* len bytes in total as the debug assertions of the sender require, and   *)
(* terminate or a drop at any point.  Every payload is one byte long.      *)
(***************************************************************************)
MaxWriteLen == 2
MaxHttpWrites == 3
NumHttpPayloads == 2

HttpPayloads == 0 .. (NumHttpPayloads - 1)
WriteLens == 1 .. MaxWriteLen
TerminationReasons == {"InvalidService", "ServiceTerminated"}
NoReason == "none"
NoStatus == 0
BAD_REQUEST == 400
OK == 200

\* serde_json::from_slice::<HttpOverrides>(bytes).unwrap_or_default().status:
\* payload 0 is no HttpOverrides document, payload k is one with status 200 + k
header_overrides_status(bytes) == IF bytes = 0 THEN NoStatus ELSE OK + bytes

bad_request(msg) == [status |-> BAD_REQUEST, message |-> msg]

HttpInit ==
    /\ http_sender = [alive |-> TRUE, termination_tx |-> TRUE, current_write |-> 0,
                      started |-> FALSE, written |-> 0, terminated |-> NoReason,
                      terminated_after_start |-> FALSE]
    /\ http_termination = [state |-> "open", reason |-> NoReason]
    /\ http_body = <<>>
    /\ http_handler = [pc |-> "headers", status |-> NoStatus, message |-> <<>>, streamed |-> <<>>]

\* the body receiver is alive until the handler returns an error or the
\* response body has ended
BodyReceiverAlive == http_handler.pc # "done"

\* dropping a one-shot sender that was not used closes the channel
drop_termination_tx ==
    IF http_sender.termination_tx /\ http_termination.state = "open"
    THEN [state |-> "dropped", reason |-> NoReason]
    ELSE http_termination

\* HttpSender::start_write
StartWrite ==
    \E len \in WriteLens :
        /\ http_sender.alive
        /\ http_sender.current_write = 0
        /\ http_sender.written + len <= MaxHttpWrites
        /\ http_termination' = drop_termination_tx
        /\ http_sender' = [http_sender EXCEPT !.termination_tx = FALSE, !.current_write = len,
                                              !.started = TRUE]
        /\ UNCHANGED <<http_body, http_handler>>
        /\ UNCHANGED outsideHttp

\* HttpSender::write with HttpSender::inner_send
Write ==
    \E bytes \in HttpPayloads :
        /\ http_sender.alive
        /\ http_sender.current_write # 0
        /\ http_sender.current_write >= 1
        /\ http_sender' = [http_sender EXCEPT !.current_write = @ - 1, !.written = @ + 1]
        /\ http_body' = IF BodyReceiverAlive THEN Append(http_body, bytes) ELSE http_body
        /\ UNCHANGED <<http_termination, http_handler>>
        /\ UNCHANGED outsideHttp

\* HttpSender::terminate, which consumes the sender
Terminate ==
    \E reason \in TerminationReasons :
        /\ http_sender.alive
        /\ http_termination' = IF http_sender.termination_tx
                               THEN [state |-> "sent", reason |-> reason]
                               ELSE http_termination
        /\ http_sender' = [http_sender EXCEPT !.alive = FALSE, !.termination_tx = FALSE,
                                              !.terminated = reason,
                                              !.terminated_after_start = http_sender.started]
        /\ UNCHANGED <<http_body, http_handler>>
        /\ UNCHANGED outsideHttp

\* the sender is dropped by its owner without a termination
DropSender ==
    /\ http_sender.alive
    /\ http_termination' = drop_termination_tx
    /\ http_sender' = [http_sender EXCEPT !.alive = FALSE, !.termination_tx = FALSE]
    /\ UNCHANGED <<http_body, http_handler>>
    /\ UNCHANGED outsideHttp

\* handler: body_rx.recv() for the header payload
HandlerRecvHeaders ==
    /\ http_handler.pc = "headers"
    /\ IF http_body # <<>>
       THEN /\ http_handler' = [http_handler EXCEPT !.pc = "termination",
                                   !.status = header_overrides_status(Head(http_body))]
            /\ http_body' = Tail(http_body)
       ELSE /\ ~http_sender.alive
            /\ LET e == bad_request(<<"Connection closed before headers were sent">>)
               IN  http_handler' = [http_handler EXCEPT !.pc = "done", !.status = e.status,
                                                        !.message = e.message]
            /\ http_body' = http_body
    /\ UNCHANGED <<http_sender, http_termination>>
    /\ UNCHANGED outsideHttp

\* handler: termination_rx.await, and the response that is returned
HandlerAwaitTermination ==
    /\ http_handler.pc = "termination"
    /\ http_termination.state # "open"
    /\ IF http_termination.state = "sent"
       THEN LET e == bad_request(<<"handshake failed", http_termination.reason>>)
            IN  /\ http_handler' = [http_handler EXCEPT !.pc = "done", !.status = e.status,
                                                        !.message = e.message]
                /\ http_body' = <<>>
       ELSE /\ http_handler' = [http_handler EXCEPT !.pc = "streaming",
                                   !.status = IF @ = NoStatus THEN OK ELSE @]
            /\ http_body' = http_body
    /\ UNCHANGED <<http_sender, http_termination>>
    /\ UNCHANGED outsideHttp

\* Body::from_stream(body_rx): the next payload of the response body, or its end
StreamBody ==
    /\ http_handler.pc = "streaming"
    /\ IF http_body # <<>>
       THEN /\ http_handler' = [http_handler EXCEPT !.streamed = Append(@, Head(http_body))]
            /\ http_body' = Tail(http_body)
       ELSE /\ ~http_sender.alive
            /\ http_handler' = [http_handler EXCEPT !.pc = "done"]
            /\ http_body' = http_body
    /\ UNCHANGED <<http_sender, http_termination>>
    /\ UNCHANGED outsideHttp

HttpNext ==
    \/ StartWrite
    \/ Write
    \/ Terminate
    \/ DropSender
    \/ HandlerRecvHeaders
    \/ HandlerAwaitTermination
    \/ StreamBody

\* C23: when the handler is done with a request whose session was terminated,
\* the response has status 400 and carries the termination reason if the
\* termination came before start_write, and has no error status if it came
\* after start_write.
C23_TerminationBeforeAndAfterStart ==
    (http_handler.pc = "done" /\ http_sender.terminated # NoReason) =>
        IF ~http_sender.terminated_after_start
        THEN /\ http_handler.status = BAD_REQUEST
             /\ http_handler.message = <<"handshake failed", http_sender.terminated>>
        ELSE http_handler.status # BAD_REQUEST

\* what the handler does: a termination before the header payload was written,
\* before or after start_write, gives status 400 with the fixed message of a
\* closed connection; a termination after the header payload gives no error
\* status and a response body that ends with what was written
C23_TerminationBeforeAndAfterHeaders ==
    (http_handler.pc = "done" /\ http_sender.terminated # NoReason) =>
        IF http_sender.written = 0
        THEN /\ http_handler.status = BAD_REQUEST
             /\ http_handler.message = <<"Connection closed before headers were sent">>
        ELSE /\ http_handler.status # BAD_REQUEST
             /\ Len(http_handler.streamed) = http_sender.written - 1

(***************************************************************************)
(* Consensus orchestrator (core/consensus/src/consensus.rs)                *)
(*                                                                         *)
(* Three kinds of processes run concurrently: the task spawned by          *)
(* Consensus::start (cs_pc), one task per call of                          *)
(* wait_to_signal_epoch_change (tasks), and the environment: the           *)
(* application advancing the epoch, the shutdown controller and the clock. *)
(* Every await of the main task is a point where the others may run.       *)
(***************************************************************************)
MaxCsEpoch == 1
MaxCsNow == 240
MaxSubmits == 2

CsEpochs == 0..MaxCsEpoch
\* step of the clock, in seconds
CsTick == 60
\* Duration::from_secs(120): the delay before ChangeEpoch is submitted again
RetryDelay == 120
\* values of EpochInfo.epoch_end, in seconds
EpochEnds == {0, 120}

NoService == [id |-> 0, epoch |-> 0]

saturating_sub(a, b) == IF a > b THEN a - b ELSE 0

ChangeEpochTxn(epoch) == [method |-> "ChangeEpoch", epoch |-> epoch]

\* The task is spawned only: the body of its async block (which creates the
\* Notified future of shutdown_notify) runs when the runtime first polls it.
wait_to_signal_epoch_change(time_until_change, epoch) ==
    [epoch |-> epoch, state |-> "spawned", time_until_change |-> time_until_change,
     wake_at |-> 0, notified |-> FALSE]

run_narwhal(epoch, epoch_end) ==
    LET service == [id |-> started + 1, epoch |-> epoch]
        until_epoch_ends == saturating_sub(epoch_end, cs_now)
    IN  /\ started' = started + 1
        /\ running' = running \cup {service.id}
        /\ tasks' = Append(tasks, wait_to_signal_epoch_change(until_epoch_ends, epoch))
        /\ consensus' = service

start_current_epoch ==
    \E epoch_end \in EpochEnds :
        IF committee[cs_epoch]
        THEN run_narwhal(cs_epoch, epoch_end)
        ELSE UNCHANGED <<started, running, tasks, consensus>>

\* mutant of move_to_next_epoch: the old service is dropped without shutdown
move_to_next_epoch_without_shutdown ==
    /\ consensus' = NoService
    /\ running' = running

\* The part of move_to_next_epoch before its second await: consensus.take()
\* and the shutdown of the service taken.  MoveToNextEpochStart continues.
move_to_next_epoch ==
    /\ consensus' = NoService
    /\ running' = IF consensus # NoService THEN running \ {consensus.id} ELSE running

\* mutant of select_biased: the branches are polled in the opposite order
select_reconfigure_first(shutdown_ready, reconfigure_ready) ==
    IF reconfigure_ready THEN "reconfigure"
    ELSE IF shutdown_ready THEN "shutdown"
    ELSE "pending"

\* select! { biased; shutdown_future, reconfigure_future }
select_biased(shutdown_ready, reconfigure_ready) ==
    IF shutdown_ready THEN "shutdown"
    ELSE IF reconfigure_ready THEN "reconfigure"
    ELSE "pending"

CsInit ==
    /\ cs_epoch = 0
    /\ committee \in [CsEpochs -> BOOLEAN]
    /\ cs_now = 0
    /\ cs_pc = "start"
    /\ consensus = NoService
    /\ running = {}
    /\ started = 0
    /\ edge_node = FALSE
    /\ shutdown_pending = FALSE
    /\ reconfigure_pending = FALSE
    /\ shutdown_notified = FALSE
    /\ tasks = <<>>
    /\ submitted = <<>>
    /\ cs_select = [branch |-> "pending", shutdown |-> FALSE, reconfigure |-> FALSE]

\* Consensus::start, up to the first select of the loop
Start ==
    /\ cs_pc = "start"
    /\ edge_node' = TRUE
    /\ start_current_epoch
    /\ cs_pc' = "select"
    /\ UNCHANGED <<cs_epoch, committee, cs_now, shutdown_pending, reconfigure_pending, shutdown_notified,
                   submitted, cs_select>>
    /\ UNCHANGED outsideConsensus

\* the shutdown branch of the select, up to the break
ShutdownBranch ==
    /\ cs_pc = "select"
    /\ select_biased(shutdown_pending, reconfigure_pending) = "shutdown"
    /\ cs_select' = [branch |-> "shutdown", shutdown |-> shutdown_pending, reconfigure |-> reconfigure_pending]
    /\ consensus' = NoService
    /\ running' = IF consensus # NoService THEN running \ {consensus.id} ELSE running
    /\ edge_node' = FALSE
    /\ cs_pc' = "exited"
    /\ UNCHANGED <<cs_epoch, committee, cs_now, started, shutdown_pending, reconfigure_pending,
                   shutdown_notified, tasks, submitted>>
    /\ UNCHANGED outsideConsensus

\* the reconfigure branch of the select, up to the end of the old service's shutdown
ReconfigureBranch ==
    /\ cs_pc = "select"
    /\ select_biased(shutdown_pending, reconfigure_pending) = "reconfigure"
    /\ cs_select' = [branch |-> "reconfigure", shutdown |-> shutdown_pending, reconfigure |-> reconfigure_pending]
    /\ reconfigure_pending' = FALSE
    /\ move_to_next_epoch
    /\ cs_pc' = "restart"
    /\ UNCHANGED <<cs_epoch, committee, cs_now, started, edge_node, shutdown_pending, shutdown_notified,
                   tasks, submitted>>
    /\ UNCHANGED outsideConsensus

\* the rest of move_to_next_epoch: start_current_epoch, then back to the select
MoveToNextEpochStart ==
    /\ cs_pc = "restart"
    /\ start_current_epoch
    /\ cs_pc' = "select"
    /\ UNCHANGED <<cs_epoch, committee, cs_now, edge_node, shutdown_pending, reconfigure_pending,
                   shutdown_notified, submitted, cs_select>>
    /\ UNCHANGED outsideConsensus

\* shutdown_notify_epoch_state.notify_waiters(): wakes the Notified futures that exist
NotifyEpochState ==
    /\ cs_pc = "exited"
    /\ shutdown_notified' = TRUE
    /\ tasks' = [i \in DOMAIN tasks |->
                    IF tasks[i].state = "sleeping" THEN [tasks[i] EXCEPT !.notified = TRUE] ELSE tasks[i]]
    /\ cs_pc' = "done"
    /\ UNCHANGED <<cs_epoch, committee, cs_now, consensus, running, started, edge_node, shutdown_pending,
                   reconfigure_pending, submitted, cs_select>>
    /\ UNCHANGED outsideConsensus

\* first poll of a signalling task: shutdown.notified() is created and the sleep begins
TaskStartOf(i) ==
    /\ tasks[i].state = "spawned"
    /\ tasks' = [tasks EXCEPT ![i].state = "sleeping",
                              ![i].wake_at = cs_now + tasks[i].time_until_change]
    /\ UNCHANGED <<cs_epoch, committee, cs_now, cs_pc, consensus, running, started, edge_node,
                   shutdown_pending, reconfigure_pending, shutdown_notified, submitted, cs_select>>
    /\ UNCHANGED outsideConsensus

TaskStart == \E i \in DOMAIN tasks : TaskStartOf(i)

\* the shutdown branch of the signalling task's select
TaskShutdownOf(i) ==
    /\ tasks[i].state = "sleeping"
    /\ tasks[i].notified
    /\ tasks' = [tasks EXCEPT ![i].state = "exited"]
    /\ UNCHANGED <<cs_epoch, committee, cs_now, cs_pc, consensus, running, started, edge_node,
                   shutdown_pending, reconfigure_pending, shutdown_notified, submitted, cs_select>>
    /\ UNCHANGED outsideConsensus

TaskShutdown == \E i \in DOMAIN tasks : TaskShutdownOf(i)

\* the sleep branch of the signalling task's select
TimerFiresOf(i) ==
    /\ tasks[i].state = "sleeping"
    /\ ~tasks[i].notified
    /\ cs_now >= tasks[i].wake_at
    /\ IF cs_epoch # tasks[i].epoch
       THEN /\ tasks' = [tasks EXCEPT ![i].state = "exited"]
            /\ UNCHANGED submitted
       ELSE /\ Len(submitted) < MaxSubmits
            /\ submitted' = Append(submitted, ChangeEpochTxn(tasks[i].epoch))
            /\ tasks' = [tasks EXCEPT ![i].time_until_change = RetryDelay,
                                      ![i].wake_at = cs_now + RetryDelay]
    /\ UNCHANGED <<cs_epoch, committee, cs_now, cs_pc, consensus, running, started, edge_node,
                   shutdown_pending, reconfigure_pending, shutdown_notified, cs_select>>
    /\ UNCHANGED outsideConsensus

TimerFires == \E i \in DOMAIN tasks : TimerFiresOf(i)

\* the shutdown controller triggers the node's shutdown
SignalShutdown ==
    /\ ~shutdown_pending
    /\ shutdown_pending' = TRUE
    /\ UNCHANGED <<cs_epoch, committee, cs_now, cs_pc, consensus, running, started, edge_node,
                   reconfigure_pending, shutdown_notified, tasks, submitted, cs_select>>
    /\ UNCHANGED outsideConsensus

\* The application moves to the next epoch and the execution state notifies
\* reconfigure_notify.  The notification reaches the main loop when it waits
\* in the select; otherwise it is either kept or lost.
AdvanceEpoch ==
    /\ cs_epoch < MaxCsEpoch
    /\ cs_epoch' = cs_epoch + 1
    /\ \E kept \in BOOLEAN :
          reconfigure_pending' = IF cs_pc = "select" \/ kept THEN TRUE ELSE reconfigure_pending
    /\ UNCHANGED <<committee, cs_now, cs_pc, consensus, running, started, edge_node, shutdown_pending,
                   shutdown_notified, tasks, submitted, cs_select>>
    /\ UNCHANGED outsideConsensus

CsClock ==
    /\ cs_now + CsTick <= MaxCsNow
    /\ cs_now' = cs_now + CsTick
    /\ UNCHANGED <<cs_epoch, committee, cs_pc, consensus, running, started, edge_node, shutdown_pending,
                   reconfigure_pending, shutdown_notified, tasks, submitted, cs_select>>
    /\ UNCHANGED outsideConsensus

CsNext ==
    \/ Start
    \/ ShutdownBranch
    \/ ReconfigureBranch
    \/ MoveToNextEpochStart
    \/ NotifyEpochState
    \/ TaskStart
    \/ TaskShutdown
    \/ TimerFires
    \/ SignalShutdown
    \/ AdvanceEpoch
    \/ CsClock

\* C13: when the timer of a signalling task fires, the task submits
\* ChangeEpoch for the epoch it was started in and sleeps another 120 s if the
\* application is still in that epoch and shutdown has not been signalled to
\* the signalling tasks; otherwise it submits nothing.
C13_SignalsOnlyWhileEpochCurrent ==
    [][\A i \in DOMAIN tasks :
          TimerFiresOf(i) =>
              IF cs_epoch = tasks[i].epoch /\ ~shutdown_notified
              THEN /\ submitted' = Append(submitted, ChangeEpochTxn(tasks[i].epoch))
                   /\ tasks'[i].wake_at = cs_now + RetryDelay
              ELSE submitted' = submitted]_vars

\* C14: a reconfiguration shuts the old service down before it starts a new
\* one, a service is started only for an epoch whose committee holds this
\* node, and at most one service is running at any time.
C14_OneEngineAtATime ==
    [][/\ Cardinality(running') <= 1
       /\ (cs_pc = "select" /\ cs_pc' = "restart") => running' = {}
       /\ (cs_pc = "restart" /\ cs_pc' = "select") =>
              IF committee[cs_epoch]
              THEN started' = started + 1 /\ running' = {started'} /\ consensus'.epoch = cs_epoch
              ELSE started' = started /\ running' = {} /\ consensus' = NoService
       /\ (started' # started) => (running = {} /\ committee[cs_epoch])]_vars

\* a second service runs alone after the first one was shut down
W_C14 ==
    /\ cs_pc = "select"
    /\ started = 2
    /\ running = {2}
    /\ consensus = [id |-> 2, epoch |-> 1]

\* C15: when shutdown and reconfigure are both ready at a select of the main
\* loop, the shutdown branch runs: the service and the edge consumer are shut
\* down and the loop exits; after the loop has exited no service is started.
C15_ShutdownTakesPriority ==
    [][/\ (cs_pc = "select" /\ shutdown_pending /\ reconfigure_pending /\ cs_pc' # cs_pc) =>
              (cs_pc' = "exited" /\ running' = {} /\ consensus' = NoService /\ ~edge_node')
       /\ (cs_pc \in {"exited", "done"}) =>
              (started' = started /\ running' = {} /\ cs_pc' \in {"exited", "done"})]_vars

\* the loop has exited through a select at which both futures were ready,
\* with a service that had been started
W_C15 ==
    /\ cs_pc = "done"
    /\ cs_select = [branch |-> "shutdown", shutdown |-> TRUE, reconfigure |-> TRUE]
    /\ started >= 1
    /\ running = {}
    /\ ~edge_node

(***************************************************************************)
(* Resolver (core/resolver/src/resolver.rs)                                *)
(*                                                                         *)
(* The database has two column families.  Keys and values are the bincode  *)
(* bytes of the values stored, modelled as the sequence of the fields      *)
(* written, in order: the bytes of a record begin with the bytes of its    *)
(* pointer and are longer, and a hash is written as it is.                 *)
(***************************************************************************)
NumUris == 2
NumHashes == 1
MaxPointers == 2

\* ImmutablePointer { origin, uri }, with one origin provider
Pointers == [origin : {0}, uri : 1..NumUris]
Blake3Hashes == 1..NumHashes
\* this node and one other node
OwnNode == 1
OtherNode == 2
\* signature: [0; 64].into()
ZeroSignature == 0
Records == [pointer : Pointers, hash : Blake3Hashes, originator : {OwnNode, OtherNode},
            signature : {ZeroSignature}]
NoRecord == [pointer |-> [origin |-> 0, uri |-> 0], hash |-> 0, originator |-> 0, signature |-> 0]
PointerSlices == UNION {[1..n -> Pointers] : n \in 0..MaxPointers}

serialize_pointer(pointer) == <<pointer.origin, pointer.uri>>

serialize_record(record) ==
    serialize_pointer(record.pointer) \o <<record.hash, record.originator, record.signature>>

serialize_records(records) == [i \in DOMAIN records |-> serialize_record(records[i])]

\* bincode::deserialize::<ResolvedImmutablePointerRecord>(bytes).ok()
deserialize_record(bytes) ==
    IF Len(bytes) = 5
    THEN [pointer |-> [origin |-> bytes[1], uri |-> bytes[2]], hash |-> bytes[3],
          originator |-> bytes[4], signature |-> bytes[5]]
    ELSE NoRecord

deserialize_records(bytes) == [i \in DOMAIN bytes |-> deserialize_record(bytes[i])]

put_cf(cf, key, value) == [k \in DOMAIN cf \cup {key} |-> IF k = key THEN value ELSE cf[k]]

store_mapping(record, database) ==
    LET b3_hash == record.hash
        resolved_pointer_bytes == serialize_record(record)
        entry == IF b3_hash \in DOMAIN database.b3_to_uri
                 THEN LET uris == deserialize_records(database.b3_to_uri[b3_hash])
                      IN  IF ~\E i \in DOMAIN uris : uris[i].pointer = record.pointer
                          THEN Append(uris, record)
                          ELSE uris
                 ELSE <<record>>
    IN  [b3_to_uri |-> put_cf(database.b3_to_uri, b3_hash, serialize_records(entry)),
         uri_to_b3 |-> put_cf(database.uri_to_b3, resolved_pointer_bytes, <<b3_hash>>)]

\* the records given to pubsub.send by publish
published_records(hash, pointers) ==
    {[pointer |-> pointers[i], hash |-> hash, originator |-> OwnNode, signature |-> ZeroSignature] :
        i \in DOMAIN pointers}

publish(hash, pointers, database) ==
    IF pointers # <<>>
    THEN LET resolved_pointer == [pointer |-> pointers[1], hash |-> hash, originator |-> OwnNode,
                                  signature |-> ZeroSignature]
         IN  store_mapping(resolved_pointer, database)
    ELSE database

get_blake3_hash(pointer, database) ==
    LET pointer_bytes == serialize_pointer(pointer)
    IN  IF pointer_bytes \in DOMAIN database.uri_to_b3
        THEN deserialize_record(database.uri_to_b3[pointer_bytes])
        ELSE NoRecord

get_origins(hash, database) ==
    IF hash \in DOMAIN database.b3_to_uri
    THEN deserialize_records(database.b3_to_uri[hash])
    ELSE <<>>

RsInit ==
    /\ rs_db = [b3_to_uri |-> <<>>, uri_to_b3 |-> <<>>]
    /\ rs_pubsub = {}
    /\ rs_last = [op |-> "none"]

PublishOf(hash, pointers) ==
    /\ rs_db' = publish(hash, pointers, rs_db)
    /\ rs_pubsub' = rs_pubsub \cup published_records(hash, pointers)
    /\ rs_last' = [op |-> "publish"]
    /\ UNCHANGED outsideResolver

Publish == \E hash \in Blake3Hashes, pointers \in PointerSlices : PublishOf(hash, pointers)

\* ResolverInner::start: a record received from the pubsub topic is stored
RecvRecord ==
    \E msg \in Records :
        /\ msg.originator = OtherNode
        /\ rs_db' = store_mapping(msg, rs_db)
        /\ rs_last' = [op |-> "recv"]
        /\ UNCHANGED rs_pubsub
        /\ UNCHANGED outsideResolver

GetBlake3Hash ==
    \E pointer \in Pointers :
        /\ rs_last' = [op |-> "get_blake3_hash", pointer |-> pointer,
                       result |-> get_blake3_hash(pointer, rs_db)]
        /\ UNCHANGED <<rs_db, rs_pubsub>>
        /\ UNCHANGED outsideResolver

GetOrigins ==
    \E hash \in Blake3Hashes :
        /\ rs_last' = [op |-> "get_origins", hash |-> hash, result |-> get_origins(hash, rs_db)]
        /\ UNCHANGED <<rs_db, rs_pubsub>>
        /\ UNCHANGED outsideResolver

RsNext == Publish \/ RecvRecord \/ GetBlake3Hash \/ GetOrigins

\* C16: after publish(hash, pointers) every pointer of the slice resolves
\* locally to a record with that hash, and publishing the same hash and
\* pointers once more changes neither these answers nor the stored origins.
C16_PublishThenResolve ==
    [][\A hash \in Blake3Hashes, pointers \in PointerSlices :
          (rs_last'.op = "publish" /\ PublishOf(hash, pointers)) =>
              /\ \A i \in DOMAIN pointers :
                    /\ get_blake3_hash(pointers[i], rs_db') # NoRecord
                    /\ get_blake3_hash(pointers[i], rs_db').hash = hash
              /\ publish(hash, pointers, rs_db') = rs_db']_vars

(***************************************************************************)
(* Fetcher (core/fetcher/src/fetcher.rs) and its origin fetcher            *)
(*                                                                         *)
(* Every put request runs in a task of its own and sends an OriginRequest  *)
(* on the channel read by the origin fetcher.  The origin fetcher keeps    *)
(* one response channel per pointer that is being fetched, starts at most  *)
(* max_conc_origin_req origin requests at a time and queues the rest.      *)
(***************************************************************************)
NumRequesters == 2
NumFtPointers == 2
MaxPuts == 3
\* Config.max_conc_origin_req
MaxConcOriginReq == 1

Requesters == 1..NumRequesters
FtPointers == 1..NumFtPointers
NoResult == [ok |-> FALSE, fetch |-> <<0, 0>>]
\* answer of a put served from the blockstore, without any origin fetch
FromCache == [ok |-> TRUE, fetch |-> <<0, 0>>]

OriginRequest(pointer, requester) == [pointer |-> pointer, response |-> requester]

RECURSIVE Occurrences(_, _)
Occurrences(seq, x) ==
    IF seq = <<>> THEN 0
    ELSE (IF seq[1] = x THEN 1 ELSE 0) + Occurrences(Tail(seq), x)

RECURSIVE SumOver(_, _)
SumOver(f, S) ==
    IF S = {} THEN 0
    ELSE LET x == CHOOSE y \in S : TRUE IN f[x] + SumOver(f, S \ {x})

\* number of fetches of the pointer begun and not finished: queued or at the origin
InFlight(at_origin, queue, pointer) == at_origin[pointer] + Occurrences(queue, pointer)

\* the origin fetcher starts a fetch: at the origin if there is capacity, else queued
spawn_or_queue(pointer, of) ==
    IF SumOver(of.at_origin, FtPointers) < MaxConcOriginReq
    THEN [of EXCEPT !.at_origin[pointer] = @ + 1, !.contacts[pointer] = @ + 1]
    ELSE [of EXCEPT !.queue = Append(@, pointer)]

\* mutant of origin_recv: every request starts a fetch of its own
origin_recv_without_coalescing(req, of) ==
    LET subscribed == [of EXCEPT !.resp_tx =
                          [p \in DOMAIN of.resp_tx \cup {req.pointer} |->
                              IF p = req.pointer
                              THEN (IF p \in DOMAIN of.resp_tx THEN of.resp_tx[p] ELSE {}) \cup {req.response}
                              ELSE of.resp_tx[p]]]
    IN  spawn_or_queue(req.pointer, subscribed)

\* the origin fetcher takes a request from its channel: a request for a
\* pointer that is being fetched subscribes to that fetch, any other request
\* opens a response channel and starts a fetch
origin_recv(req, of) ==
    IF req.pointer \in DOMAIN of.resp_tx
    THEN [of EXCEPT !.resp_tx[req.pointer] = @ \cup {req.response}]
    ELSE spawn_or_queue(req.pointer,
             [of EXCEPT !.resp_tx = [p \in DOMAIN of.resp_tx \cup {req.pointer} |->
                                        IF p = req.pointer THEN {req.response} ELSE of.resp_tx[p]]])

\* a fetch at the origin ends: its response channel is removed and the next
\* queued pointer, if any, goes to the origin
origin_done(pointer, of) ==
    LET ended == [of EXCEPT !.at_origin[pointer] = @ - 1,
                            !.resp_tx = [p \in DOMAIN of.resp_tx \ {pointer} |-> of.resp_tx[p]]]
    IN  IF ended.queue # <<>>
        THEN LET next == Head(ended.queue)
             IN  [ended EXCEPT !.queue = Tail(@), !.at_origin[next] = @ + 1, !.contacts[next] = @ + 1]
        ELSE ended

FtInit ==
    /\ ft_req = [r \in Requesters |-> [state |-> "idle", pointer |-> 0, result |-> NoResult]]
    /\ ft_origin_tx = <<>>
    /\ ft_origin = [resp_tx |-> <<>>, at_origin |-> [p \in FtPointers |-> 0], queue |-> <<>>,
                    contacts |-> [p \in FtPointers |-> 0]]
    /\ ft_stored = {}
    /\ ft_puts = 0

\* FetcherRequest::Put: put, and fetch_origin up to the send on origin_tx
PutOf(r, pointer) ==
    /\ ft_req[r].state = "idle"
    /\ ft_puts < MaxPuts
    /\ ft_puts' = ft_puts + 1
    /\ IF pointer \in ft_stored
       THEN /\ ft_req' = [ft_req EXCEPT ![r] = [state |-> "idle", pointer |-> pointer, result |-> FromCache]]
            /\ UNCHANGED ft_origin_tx
       ELSE /\ ft_req' = [ft_req EXCEPT ![r] = [state |-> "waiting", pointer |-> pointer, result |-> NoResult]]
            /\ ft_origin_tx' = Append(ft_origin_tx, OriginRequest(pointer, r))
    /\ UNCHANGED <<ft_origin, ft_stored>>
    /\ UNCHANGED outsideFetcher

Put == \E r \in Requesters, pointer \in FtPointers : PutOf(r, pointer)

OriginRecv ==
    /\ ft_origin_tx # <<>>
    /\ ft_origin' = origin_recv(Head(ft_origin_tx), ft_origin)
    /\ ft_origin_tx' = Tail(ft_origin_tx)
    /\ UNCHANGED <<ft_req, ft_stored, ft_puts>>
    /\ UNCHANGED outsideFetcher

\* the origin answers a fetch: every subscriber of the pointer's response
\* channel receives the answer, and fetch_origin returns it to put
OriginDoneOf(pointer, ok) ==
    /\ ft_origin.at_origin[pointer] > 0
    /\ ft_origin' = origin_done(pointer, ft_origin)
    /\ ft_req' = [r \in Requesters |->
                    IF pointer \in DOMAIN ft_origin.resp_tx /\ r \in ft_origin.resp_tx[pointer]
                    THEN [state |-> "idle", pointer |-> pointer,
                          result |-> [ok |-> ok, fetch |-> <<pointer, ft_origin.contacts[pointer]>>]]
                    ELSE ft_req[r]]
    /\ ft_stored' = IF ok THEN ft_stored \cup {pointer} ELSE ft_stored
    /\ UNCHANGED <<ft_origin_tx, ft_puts>>
    /\ UNCHANGED outsideFetcher

OriginDone == \E pointer \in FtPointers, ok \in BOOLEAN : OriginDoneOf(pointer, ok)

FtNext == Put \/ OriginRecv \/ OriginDone

MaxRecords == 4

NoOrigins == -1
Origins == {NoOrigins} \cup (0 .. MaxRecords)
Answers == {"ok", "err", "closed"}

NoFetch == [pc |-> "none", origins |-> NoOrigins, cached |-> FALSE, i |-> 0,
            asked |-> <<>>, result |-> "none", source |-> "none"]

returned(call, result, source) == [call EXCEPT !.pc = "done", !.result = result, !.source = source]

asks(call, kind) ==
    [call EXCEPT !.pc = kind, !.asked = Append(@, [kind |-> kind, record |-> call.i, answer |-> "pending"])]

answered(call, answer) == [call EXCEPT !.asked[Len(call.asked)].answer = answer]

\* mutant of origin_failed: the call gives up after the first record
origin_failed_gives_up(call) == returned(call, "Err", "none")

\* fetch: the end of the loop body, and the Err after the loop
origin_failed(call) ==
    IF call.i < call.origins
    THEN [call EXCEPT !.pc = "record", !.i = @ + 1]
    ELSE returned(call, "Err", "none")

FxInit ==
    /\ fx_blockstore \in BOOLEAN
    /\ \E origins \in Origins :
          fx = [NoFetch EXCEPT !.pc = "call", !.origins = origins, !.cached = fx_blockstore]

\* fetch: blockstore.get_tree and resolver.get_origins
FetchCall ==
    /\ fx.pc = "call"
    /\ fx' = IF fx_blockstore THEN returned(fx, "Ok", "cache")
             ELSE IF fx.origins = NoOrigins \/ fx.origins = 0 THEN returned(fx, "Err", "none")
             ELSE [fx EXCEPT !.pc = "record", !.i = 1]
    /\ UNCHANGED fx_blockstore
    /\ UNCHANGED outsideFetch

\* fetch: the loop body up to the request to the blockstore server
FetchRecord ==
    /\ fx.pc = "record"
    /\ fx' = IF fx_blockstore THEN returned(fx, "Ok", "cache") ELSE asks(fx, "peer")
    /\ UNCHANGED fx_blockstore
    /\ UNCHANGED outsideFetch

\* fetch: the answer of the blockstore server, and the request to the origin
PeerAnswers ==
    \E answer \in Answers :
        /\ fx.pc = "peer"
        /\ fx' = CASE answer = "ok" -> returned(answered(fx, answer), "Ok", "peer")
                   [] answer = "err" -> asks(answered(fx, answer), "origin")
                   [] OTHER -> returned(answered(fx, answer), "Panic", "none")
        /\ fx_blockstore' = (fx_blockstore \/ answer = "ok")
        /\ UNCHANGED outsideFetch

\* fetch: the result of fetch_origin
OriginAnswers ==
    \E answer \in Answers \ {"closed"} :
        /\ fx.pc = "origin"
        /\ fx' = IF answer = "ok" THEN returned(answered(fx, answer), "Ok", "origin")
                 ELSE origin_failed(answered(fx, answer))
        /\ fx_blockstore' = (fx_blockstore \/ answer = "ok")
        /\ UNCHANGED outsideFetch

\* another task puts the content into the blockstore
BlockstorePut ==
    /\ ~fx_blockstore
    /\ fx.pc # "done"
    /\ fx_blockstore' = TRUE
    /\ UNCHANGED fx
    /\ UNCHANGED outsideFetch

FetchNext == FetchCall \/ FetchRecord \/ PeerAnswers \/ OriginAnswers \/ BlockstorePut

Failed(call, kind, record) ==
    \E k \in 1 .. Len(call.asked) :
        call.asked[k] = [kind |-> kind, record |-> record, answer |-> "err"]

\* C24: a call that finds the content in the blockstore returns Ok and has
\* asked nobody; the origin of a record is asked only right after the
\* originator of that record failed; nothing is asked after a source
\* succeeded, and then the call returns Ok; and the call returns Err only
\* when no record is known or the originator and the origin of every known
\* record failed.
C24_FetchOrder ==
    /\ (fx.pc = "done" /\ fx.cached) => (fx.result = "Ok" /\ fx.asked = <<>>)
    /\ \A k \in 1 .. Len(fx.asked) :
          /\ fx.asked[k].kind = "origin" =>
                /\ k > 1
                /\ fx.asked[k - 1] = [kind |-> "peer", record |-> fx.asked[k].record, answer |-> "err"]
          /\ fx.asked[k].answer = "ok" =>
                /\ k = Len(fx.asked)
                /\ fx.pc = "done"
                /\ fx.result = "Ok"
    /\ (fx.pc = "done" /\ fx.result = "Ok") =>
          \/ fx.source = "cache"
          \/ fx.asked # <<>> /\ fx.asked[Len(fx.asked)].answer = "ok"
                             /\ fx.asked[Len(fx.asked)].kind = fx.source
    /\ (fx.pc = "done" /\ fx.result = "Err") =>
          \/ fx.origins \in {NoOrigins, 0} /\ fx.asked = <<>>
          \/ \A record \in 1 .. fx.origins :
                Failed(fx, "peer", record) /\ Failed(fx, "origin", record)

\* a call with the most records returned Err after both sources of the first
\* record and of the last record had failed
W_C24 ==
    /\ fx.pc = "done"
    /\ fx.result = "Err"
    /\ fx.origins = MaxRecords
    /\ Len(fx.asked) = 2 * MaxRecords
    /\ Failed(fx, "origin", 1)
    /\ Failed(fx, "origin", MaxRecords)

(***************************************************************************)
(* Notifier (core/notifier/src/lib.rs)                                     *)
(*                                                                         *)
(* Every request has its own channel tx, whose receiver takes what is      *)
(* sent.  A spawned task sleeps until its deadline and then sends; the     *)
(* clock does not pass a deadline before the sleeping task has run.  The   *)
(* application moves to the next epoch at some time from the epoch's end.  *)
(***************************************************************************)
MaxNtNow == 5
MaxDuration == 2
MaxRequests == 2
MaxNtEpoch == 1
NtEpochTime == 3

Durations == 1 .. MaxDuration
NoTask == -1

\* Notifier::get_until_epoch_end
get_until_epoch_end_of_whole_epoch == NtEpochTime

\* Notifier::get_until_epoch_end
get_until_epoch_end == saturating_sub(nt_epoch.epoch_end, nt_now)

Request(kind, duration, wake) ==
    [kind |-> kind, duration |-> duration, at |-> nt_now, epoch |-> nt_epoch.epoch,
     epoch_end |-> nt_epoch.epoch_end, wake |-> wake, sent |-> <<>>]

NtInit ==
    /\ nt_now = 0
    /\ nt_epoch = [epoch |-> 0, epoch_end |-> NtEpochTime]
    /\ nt_requests = <<>>

\* Notifier::notify_on_new_epoch
NotifyOnNewEpoch ==
    /\ Len(nt_requests) < MaxRequests
    /\ LET until_epoch_end == get_until_epoch_end
       IN  nt_requests' = Append(nt_requests, Request("NewEpoch", 0, nt_now + until_epoch_end))
    /\ UNCHANGED <<nt_now, nt_epoch>>
    /\ UNCHANGED outsideNotifier

\* Notifier::notify_before_epoch_change
NotifyBeforeEpochChangeOf(duration) ==
    /\ Len(nt_requests) < MaxRequests
    /\ LET until_epoch_end == get_until_epoch_end
       IN  nt_requests' = Append(nt_requests,
               Request("BeforeEpochChange", duration,
                       IF until_epoch_end > duration
                       THEN nt_now + (until_epoch_end - duration)
                       ELSE NoTask))
    /\ UNCHANGED <<nt_now, nt_epoch>>
    /\ UNCHANGED outsideNotifier

NotifyBeforeEpochChange == \E duration \in Durations : NotifyBeforeEpochChangeOf(duration)

Sleeping(r) == r.wake # NoTask /\ r.sent = <<>>

\* a spawned task: the sleep is over and the notification is sent
TaskSends ==
    \E k \in 1 .. Len(nt_requests) :
        /\ Sleeping(nt_requests[k])
        /\ nt_requests[k].wake <= nt_now
        /\ nt_requests' = [nt_requests EXCEPT ![k].sent =
                              Append(@, [notification |-> nt_requests[k].kind, at |-> nt_now])]
        /\ UNCHANGED <<nt_now, nt_epoch>>
        /\ UNCHANGED outsideNotifier

\* the application changes the epoch
NtEpochChange ==
    /\ nt_epoch.epoch < MaxNtEpoch
    /\ nt_now >= nt_epoch.epoch_end
    /\ nt_epoch' = [epoch |-> nt_epoch.epoch + 1, epoch_end |-> nt_now + NtEpochTime]
    /\ UNCHANGED <<nt_now, nt_requests>>
    /\ UNCHANGED outsideNotifier

NtClock ==
    /\ nt_now < MaxNtNow
    /\ \A k \in 1 .. Len(nt_requests) :
          Sleeping(nt_requests[k]) => nt_now < nt_requests[k].wake
    /\ nt_now' = nt_now + 1
    /\ UNCHANGED <<nt_epoch, nt_requests>>
    /\ UNCHANGED outsideNotifier

NtNext == NotifyOnNewEpoch \/ NotifyBeforeEpochChange \/ TaskSends \/ NtEpochChange \/ NtClock

\* the time a request's notification is due: the end of the epoch of the
\* request (the time of the request if that end has passed), less the duration
DueAt(r) == IF r.epoch_end - r.duration > r.at THEN r.epoch_end - r.duration ELSE r.at

SentRight(r) ==
    \A j \in 1 .. Len(r.sent) : r.sent[j] = [notification |-> r.kind, at |-> DueAt(r)]

\* C25: every request gets exactly one notification on its tx, NewEpoch at
\* the end of the epoch of the request or BeforeEpochChange the duration
\* before that end: never more than one, and one once that time has passed.
C25_ExactlyOnePerRequest ==
    \A k \in 1 .. Len(nt_requests) :
        LET r == nt_requests[k]
        IN  /\ Len(r.sent) <= 1
            /\ SentRight(r)
            /\ nt_now > DueAt(r) => Len(r.sent) = 1

\* C25 as the notifier keeps it: a BeforeEpochChange request made when no
\* more than the duration is left of the epoch gets nothing; every other
\* request gets exactly one notification, at the time it is due.
C25_OneUnlessTooLate ==
    \A k \in 1 .. Len(nt_requests) :
        LET r == nt_requests[k]
            too_late == r.kind = "BeforeEpochChange" /\ r.epoch_end - r.at <= r.duration
        IN  /\ Len(r.sent) <= 1
            /\ SentRight(r)
            /\ too_late => r.sent = <<>>
            /\ (~too_late /\ nt_now > DueAt(r)) => Len(r.sent) = 1

\* a request made in time got its BeforeEpochChange, one made too late got
\* nothing by the end of its epoch
W_C25 ==
    /\ Len(nt_requests) = 2
    /\ nt_requests[1].kind = "BeforeEpochChange"
    /\ nt_requests[1].at > 0
    /\ Len(nt_requests[1].sent) = 1
    /\ nt_requests[2].kind = "BeforeEpochChange"
    /\ nt_requests[2].epoch_end - nt_requests[2].at <= nt_requests[2].duration
    /\ nt_now > nt_requests[2].epoch_end

(***************************************************************************)
(* Syncronizer (core/syncronizer/src/syncronizer.rs)                       *)
(*                                                                         *)
(* The genesis committee is the list of nodes 1..NumGenesis in the order   *)
(* the shuffle left it.  In a try a node does or does not answer the epoch *)
(* request, the checkpoint hash request and the download request.  The     *)
(* checkpoint hash a node reports is that of its epoch.                    *)
(***************************************************************************)
NumGenesis == 2
MaxSyEpoch == 2
MaxTries == 2

GenesisNodes == 1 .. NumGenesis
NoAnswer == -1

NoTry == [bootstrap_epoch |-> NoAnswer, current_epoch |-> NoAnswer, any_ahead |-> FALSE,
          requested |-> <<>>, result |-> NoAnswer]

\* the first node of the committee among those that answer, or none
first_to_answer(up) ==
    IF up = {} THEN NoAnswer ELSE CHOOSE n \in up : \A m \in up : n <= m

\* ask_bootstrap_nodes: the answer of the first node that responds
ask_bootstrap_nodes(up, answers) ==
    IF first_to_answer(up) = NoAnswer THEN NoAnswer ELSE answers[first_to_answer(up)]

\* the answers of the genesis nodes to the two requests
rpc_epoch == sy_remote
rpc_last_epoch_hash == sy_remote

\* download_checkpoint_from_bootstrap: the nodes asked, up to the first that delivers
download_checkpoint_from_bootstrap(up) ==
    IF up = {} THEN [ok |-> FALSE, requested |-> [i \in GenesisNodes |-> i]]
    ELSE [ok |-> TRUE, requested |-> [i \in 1 .. first_to_answer(up) |-> i]]

\* mutant of is_behind: a node on the same epoch counts as ahead
is_behind_strictly(bootstrap_epoch, current_epoch) == bootstrap_epoch < current_epoch

\* try_sync: the bail of a bootstrap epoch that is not ahead
is_behind(bootstrap_epoch, current_epoch) == bootstrap_epoch <= current_epoch

\* SyncronizerInner::try_sync
try_sync(epoch_up, hash_up, download_up) ==
    LET current_epoch == sy_epoch
        bootstrap_epoch == ask_bootstrap_nodes(epoch_up, rpc_epoch)
        latest_checkpoint_hash == ask_bootstrap_nodes(hash_up, rpc_last_epoch_hash)
        download == download_checkpoint_from_bootstrap(download_up)
        try == [NoTry EXCEPT !.bootstrap_epoch = bootstrap_epoch, !.current_epoch = current_epoch,
                             !.any_ahead = \E n \in GenesisNodes : sy_remote[n] > sy_epoch]
    IN  IF bootstrap_epoch = NoAnswer THEN try
        ELSE IF is_behind(bootstrap_epoch, current_epoch) THEN try
        ELSE IF latest_checkpoint_hash = NoAnswer THEN try
        ELSE IF download.ok
             THEN [try EXCEPT !.requested = download.requested, !.result = latest_checkpoint_hash]
             ELSE [try EXCEPT !.requested = download.requested]

SyInit ==
    /\ sy_epoch = 0
    /\ sy_remote = [n \in GenesisNodes |-> 0]
    /\ sy = [pc |-> "start", tries |-> 0, sent |-> <<>>, last |-> NoTry]

\* run: the try_sync before the loop, or the one made when the timer of the
\* loop fires, and the send and return after a successful one
TrySync ==
    \E epoch_up, hash_up, download_up \in SUBSET GenesisNodes :
        LET try == try_sync(epoch_up, hash_up, download_up)
        IN  /\ sy.pc \in {"start", "loop"}
            /\ sy.tries < MaxTries
            /\ sy' = [pc |-> IF try.result = NoAnswer THEN "loop" ELSE "done",
                      tries |-> sy.tries + 1,
                      sent |-> IF try.result = NoAnswer THEN sy.sent ELSE Append(sy.sent, try.result),
                      last |-> try]
            /\ UNCHANGED <<sy_epoch, sy_remote>>
            /\ UNCHANGED outsideSyncronizer

\* run: an epoch change notification arrives; the local epoch has changed
EpochChangeNotification ==
    /\ sy.pc = "loop"
    /\ sy_epoch < MaxSyEpoch
    /\ sy_epoch' = sy_epoch + 1
    /\ UNCHANGED <<sy_remote, sy>>
    /\ UNCHANGED outsideSyncronizer

\* run: the notifier is gone or the shutdown signal arrives
SyShutdown ==
    /\ sy.pc = "loop"
    /\ sy' = [sy EXCEPT !.pc = "done"]
    /\ UNCHANGED <<sy_epoch, sy_remote>>
    /\ UNCHANGED outsideSyncronizer

\* a genesis node moves to its next epoch
RemoteEpochChange ==
    \E n \in GenesisNodes :
        /\ sy_remote[n] < MaxSyEpoch
        /\ sy_remote' = [sy_remote EXCEPT ![n] = @ + 1]
        /\ UNCHANGED <<sy_epoch, sy>>
        /\ UNCHANGED outsideSyncronizer

SyNext ==
    \/ TrySync
    \/ EpochChangeNotification
    \/ SyShutdown
    \/ RemoteEpochChange

\* C26: at most one checkpoint root is sent, and it is sent only by a try in
\* which a genesis node reported an epoch greater than the local one and a
\* download from a genesis node succeeded; a try made while no genesis node
\* is ahead requests no download and sends nothing.
C26_SyncOnlyWhenBehind ==
    /\ Len(sy.sent) <= 1
    /\ sy.sent # <<>> =>
          /\ sy.pc = "done"
          /\ sy.last.bootstrap_epoch > sy.last.current_epoch
          /\ sy.last.requested # <<>>
          /\ sy.last.result = sy.sent[1]
    /\ sy.last.requested # <<>> => sy.last.bootstrap_epoch > sy.last.current_epoch
    /\ (sy.tries > 0 /\ ~sy.last.any_ahead) =>
          /\ sy.last.requested = <<>>
          /\ sy.last.result = NoAnswer
          /\ sy.sent = <<>>

\* the second try, made after the local node had moved on and a genesis node
\* had moved further, sent the checkpoint it got from the last genesis node
W_C26 ==
    /\ sy.tries = 2
    /\ sy.last.current_epoch > 0
    /\ Len(sy.sent) = 1
    /\ Len(sy.last.requested) = NumGenesis

(***************************************************************************)
(* Application executor: staking of one node                               *)
(*                                                                         *)
(* The owner of the node has deposited StakeFunds FLK and sends Stake,     *)
(* StakeLock, Unstake and WithdrawUnstaked for its node, with the right    *)
(* nonce; the epoch changes in between.  An Unstake asks for no more than  *)
(* is staked.                                                              *)
(***************************************************************************)
MaxStkEpoch == 3
StakeFunds == 2
MaxLockedFor == 2
lock_time == 2

Amounts == 1 .. StakeFunds
LockedFors == 1 .. MaxLockedFor
Recipients == {"none", "other"}

Executed(st, resp) == [state |-> st, resp |-> resp]

\* Stake { amount, node }
stake_tokens(st, amount) ==
    IF st.flk < amount THEN Executed(st, Revert("InsufficientBalance"))
    ELSE Executed([st EXCEPT !.flk = @ - amount, !.staked = @ + amount], Success)

\* mutant of stake_lock: the lock is counted from epoch 0
stake_lock_from_genesis(st, locked_for) ==
    Executed([st EXCEPT !.stake_locked_until = locked_for], Success)

\* StakeLock { node, locked_for }
stake_lock(st, locked_for) ==
    Executed([st EXCEPT !.stake_locked_until = st.epoch + locked_for], Success)

\* Unstake { amount, node }
unstake(st, amount) ==
    IF st.stake_locked_until > st.epoch
    THEN Executed(st, Revert("LockedTokensUnstakeForbidden"))
    ELSE Executed([st EXCEPT !.staked = @ - amount, !.locked = @ + amount,
                             !.locked_until = st.epoch + lock_time], Success)

\* mutant of withdraw_unstaked: the tokens go out whatever the epoch
withdraw_unstaked_at_any_time(st, recipient) ==
    IF recipient = "none"
    THEN Executed([st EXCEPT !.flk = @ + st.locked, !.locked = 0], Success)
    ELSE Executed([st EXCEPT !.other_flk = @ + st.locked, !.locked = 0], Success)

\* WithdrawUnstaked { node, recipient }
withdraw_unstaked(st, recipient) ==
    IF st.epoch < st.locked_until THEN Executed(st, Revert("TokensLocked"))
    ELSE IF recipient = "none"
    THEN Executed([st EXCEPT !.flk = @ + st.locked, !.locked = 0], Success)
    ELSE Executed([st EXCEPT !.other_flk = @ + st.locked, !.locked = 0], Success)

StkInit ==
    /\ staking = [epoch |-> 0, flk |-> StakeFunds, other_flk |-> 0, staked |-> 0, locked |-> 0,
              locked_until |-> 0, stake_locked_until |-> 0]
    /\ staking_resp = [method |-> "none", resp |-> Success]

Run(method, r) ==
    /\ staking' = r.state
    /\ staking_resp' = [method |-> method, resp |-> r.resp]
    /\ UNCHANGED outsideStaking

RunStake == \E amount \in Amounts : Run("Stake", stake_tokens(staking, amount))

RunStakeLockOf(locked_for) == Run("StakeLock", stake_lock(staking, locked_for))

RunStakeLock == \E locked_for \in LockedFors : RunStakeLockOf(locked_for)

RunUnstakeOf(amount) ==
    /\ amount <= staking.staked
    /\ Run("Unstake", unstake(staking, amount))

RunUnstake == \E amount \in Amounts : RunUnstakeOf(amount)

RunWithdrawUnstakedOf(recipient) == Run("WithdrawUnstaked", withdraw_unstaked(staking, recipient))

RunWithdrawUnstaked == \E recipient \in Recipients : RunWithdrawUnstakedOf(recipient)

\* the committee changes the epoch
StkChangeEpoch ==
    /\ staking.epoch < MaxStkEpoch
    /\ staking' = [staking EXCEPT !.epoch = @ + 1]
    /\ staking_resp' = [method |-> "ChangeEpoch", resp |-> Success]
    /\ UNCHANGED outsideStaking

StkNext == RunStake \/ RunStakeLock \/ RunUnstake \/ RunWithdrawUnstaked \/ StkChangeEpoch

C28_UnstakeThenWithdraw ==
    [][/\ \A amount \in Amounts :
             (staking_resp'.method = "Unstake" /\ RunUnstakeOf(amount)
                  /\ staking_resp'.resp = Success) =>
                 /\ staking'.staked = staking.staked - amount
                 /\ staking'.locked = staking.locked + amount
                 /\ staking'.locked_until = staking.epoch + lock_time
                 /\ staking'.flk = staking.flk /\ staking'.other_flk = staking.other_flk
       /\ \A recipient \in Recipients :
             (staking_resp'.method = "WithdrawUnstaked" /\ RunWithdrawUnstakedOf(recipient)) =>
                 IF staking.epoch >= staking.locked_until
                 THEN /\ staking_resp'.resp = Success
                      /\ staking'.locked = 0
                      /\ staking'.staked = staking.staked
                      /\ staking'.flk = staking.flk + (IF recipient = "none" THEN staking.locked ELSE 0)
                      /\ staking'.other_flk = staking.other_flk + (IF recipient = "other" THEN staking.locked ELSE 0)
                 ELSE /\ staking_resp'.resp = Revert("TokensLocked")
                      /\ staking' = staking]_vars

\* the recipient got the tokens that were unstaked after epoch 0
W_C28 ==
    /\ staking_resp = [method |-> "WithdrawUnstaked", resp |-> Success]
    /\ staking.other_flk > 0
    /\ staking.locked_until > lock_time
    /\ staking.epoch >= staking.locked_until

(***************************************************************************)
(* Pool: the connections of the event handler                              *)
(*                                                                         *)
(* The nodes 1..NumPoolNodes are in the application state, and one more    *)
(* index is not.  An entry of the pool says whether the peer is in the     *)
(* current topology and whether a send-request has pinned it.              *)
(***************************************************************************)
NumPoolNodes == 3

PoolNodes == 1 .. NumPoolNodes
UnknownNode == NumPoolNodes + 1
BroadcastParams ==
    {[kind |-> "Filter", filter |-> s, index |-> 0] : s \in SUBSET (PoolNodes \cup {UnknownNode})}
    \cup {[kind |-> "Index", filter |-> {}, index |-> i] : i \in PoolNodes \cup {UnknownNode}}

FromTopology(pl) == {i \in DOMAIN pl : pl[i].from_topology}
AdHoc(pl) == {i \in DOMAIN pl : pl[i].pinned /\ ~pl[i].from_topology}

\* mutant of update_connections: only the peers of the topology are kept
update_connections_of_topology_only(pl, new_peers) ==
    [i \in new_peers |-> [from_topology |-> TRUE,
                      pinned |-> IF i \in DOMAIN pl THEN pl[i].pinned ELSE FALSE]]

\* EventReceiver::_update_connections
update_connections(pl, new_peers) ==
    [i \in {k \in DOMAIN pl : pl[k].pinned} \cup new_peers |->
        [from_topology |-> i \in new_peers,
         pinned |-> IF i \in DOMAIN pl THEN pl[i].pinned ELSE FALSE]]

\* Event::SendRequest: the connection to dst is pinned; a node that is not in
\* the state has no address
send_request(pl, dst) ==
    IF dst \notin PoolNodes THEN pl
    ELSE [i \in DOMAIN pl \cup {dst} |->
             IF i = dst
             THEN [from_topology |-> IF dst \in DOMAIN pl THEN pl[dst].from_topology ELSE FALSE,
                   pinned |-> TRUE]
             ELSE pl[i]]

\* EventReceiver::clean
clean(pl, peer) ==
    IF peer \notin DOMAIN pl THEN pl
    ELSE IF pl[peer].from_topology THEN [pl EXCEPT ![peer].pinned = FALSE]
    ELSE [i \in DOMAIN pl \ {peer} |-> pl[i]]

\* mutant of broadcast_peers: every connection of the pool is a peer to send to
broadcast_peers_of_all_connections(pl, param) ==
    IF param.kind = "Filter" THEN DOMAIN pl \cap param.filter
    ELSE DOMAIN pl \cap {param.index}

\* Event::Broadcast: the peers of the SendMessage task
broadcast_peers(pl, param) ==
    IF param.kind = "Filter" THEN FromTopology(pl) \cap param.filter
    ELSE FromTopology(pl) \cap {param.index}

PoolInit ==
    /\ pool = <<>>
    /\ pool_last = [op |-> "none", task |-> "none", peers |-> {}]

UpdateConnectionsOf(new_peers) ==
    /\ pool' = update_connections(pool, new_peers)
    /\ pool_last' = [op |-> "UpdateConnections", task |-> "Update", peers |-> new_peers]
    /\ UNCHANGED outsidePool

UpdateConnections == \E new_peers \in SUBSET PoolNodes : UpdateConnectionsOf(new_peers)

SendRequestEvent ==
    \E dst \in PoolNodes \cup {UnknownNode} :
        /\ pool' = send_request(pool, dst)
        /\ pool_last' = IF dst \in PoolNodes
                        THEN [op |-> "SendRequest", task |-> "SendRequest", peers |-> {dst}]
                        ELSE [op |-> "SendRequest", task |-> "none", peers |-> {}]
        /\ UNCHANGED outsidePool

CleanOf(peer) ==
    /\ pool' = clean(pool, peer)
    /\ pool_last' = [op |-> "Clean", task |-> "none", peers |-> {peer}]
    /\ UNCHANGED outsidePool

Clean == \E peer \in PoolNodes : CleanOf(peer)

BroadcastOf(param) ==
    /\ pool' = pool
    /\ pool_last' = IF broadcast_peers(pool, param) = {}
                    THEN [op |-> "Broadcast", task |-> "none", peers |-> {}]
                    ELSE [op |-> "Broadcast", task |-> "SendMessage",
                          peers |-> broadcast_peers(pool, param)]
    /\ UNCHANGED outsidePool

Broadcast == \E param \in BroadcastParams : BroadcastOf(param)

PoolNext == UpdateConnections \/ SendRequestEvent \/ Clean \/ Broadcast

\* C29: a connection pinned by a send-request stays in the pool in every
\* step, an update of the connections to a topology without the peer
\* included, except the step that cleans it while the peer is not in the
\* current topology.
C29_AdHocKeptUntilCleaned ==
    [][\A i \in DOMAIN pool :
          pool[i].pinned =>
             \/ i \in DOMAIN pool'
             \/ pool_last' = [op |-> "Clean", task |-> "none", peers |-> {i}]
                   /\ ~pool[i].from_topology]_vars

\* a pinned connection outlived an update to the empty topology
W_C29 ==
    /\ pool_last = [op |-> "UpdateConnections", task |-> "Update", peers |-> {}]
    /\ AdHoc(pool) # {}

\* C30: the SendMessage task of a broadcast names only peers of the current
\* topology: no connection that is only pinned, only the addressed peer when
\* the broadcast is addressed to one index, and never the node that is not
\* in the state.
C30_BroadcastWithinTopology ==
    [][\A param \in BroadcastParams :
          (pool_last'.op = "Broadcast" /\ BroadcastOf(param)) =>
             /\ pool_last'.peers \subseteq FromTopology(pool)
             /\ pool_last'.peers \cap AdHoc(pool) = {}
             /\ param.kind = "Index" => pool_last'.peers \subseteq {param.index}
             /\ UnknownNode \notin pool_last'.peers]_vars

\* a broadcast went to the peers of the topology while another connection
\* was pinned
W_C30 ==
    /\ pool_last.op = "Broadcast"
    /\ pool_last.task = "SendMessage"
    /\ AdHoc(pool) # {}
    /\ pool_last.peers = FromTopology(pool)
    /\ Cardinality(pool_last.peers) = 2

(***************************************************************************)
(* Broadcast event loop: main_loop and the topology subscriber             *)
(*                                                                         *)
(* The loop is one task that selects over the shutdown signal, the command *)
(* channel, the topology subscriber, the outgoing connections, the frames  *)
(* of the peers and the listener.  The select is not biased: a branch that *)
(* is ready is taken, whichever it is.  What the branches do to the        *)
(* context is modelled in the sections above; here the loop records which  *)
(* branch it took.  The subscriber is a second task and the notifier's     *)
(* one-shot task a third.                                                  *)
(***************************************************************************)
MaxMlEpoch == 2
MaxCommands == 2
MaxNetEvents == 1

Commands == {"Recv", "Send", "Propagate", "MarkInvalidSender"}
NetEvents == {"outgoing", "frame", "incoming"}
NoTopology == -1

\* Context::handle_command: what becomes of the loop; handle_propagate_cmd
\* and handle_mark_invalid_sender_cmd are todo!(), which panics
handle_command(command) ==
    CASE command = "Recv" -> "running"
      [] command = "Send" -> "running"
      [] command = "Propagate" -> "panicked"
      [] command = "MarkInvalidSender" -> "panicked"

\* Topology::suggest_connections: the topology of the epoch in the state
suggest_connections == ml_app.epoch

\* has the time the notifier's task sleeps until passed: the end of the
\* epoch in which notify_on_new_epoch was called
SleepOver == ml_app.epoch > 0 \/ ml_app.past_end

MlInit ==
    /\ ml_loop = [state |-> "running", handled |-> 0, last |-> "none", applied |-> NoTopology]
    /\ ml_shutdown = FALSE
    /\ ml_command_rx = <<>>
    /\ ml_net = [e \in NetEvents |-> 0]
    /\ ml_app = [epoch |-> 0, past_end |-> FALSE, commands |-> 0, events |-> 0]
    /\ ml_sub = [pc |-> "compute", notifier |-> "sleeping", rx |-> 0, w |-> <<>>]

LoopRunning == ml_loop.state = "running"

\* the owner of the shutdown sender fires it
ShutdownSignalled ==
    /\ LoopRunning
    /\ ~ml_shutdown
    /\ ml_shutdown' = TRUE
    /\ UNCHANGED <<ml_loop, ml_command_rx, ml_net, ml_app, ml_sub>>
    /\ UNCHANGED outsideMainLoop

\* a broadcast or pubsub object sends a command
SendCommand ==
    \E command \in Commands :
        /\ ml_app.commands < MaxCommands
        /\ ml_command_rx' = Append(ml_command_rx, command)
        /\ ml_app' = [ml_app EXCEPT !.commands = @ + 1]
        /\ UNCHANGED <<ml_loop, ml_shutdown, ml_net, ml_sub>>
        /\ UNCHANGED outsideMainLoop

\* a connection or a frame arrives
NetArrives ==
    \E e \in NetEvents :
        /\ ml_app.events < MaxNetEvents
        /\ ml_net' = [ml_net EXCEPT ![e] = @ + 1]
        /\ ml_app' = [ml_app EXCEPT !.events = @ + 1]
        /\ UNCHANGED <<ml_loop, ml_shutdown, ml_command_rx, ml_sub>>
        /\ UNCHANGED outsideMainLoop

\* the clock reaches the end of the epoch
MlClock ==
    /\ ~ml_app.past_end
    /\ ml_app' = [ml_app EXCEPT !.past_end = TRUE]
    /\ UNCHANGED <<ml_loop, ml_shutdown, ml_command_rx, ml_net, ml_sub>>
    /\ UNCHANGED outsideMainLoop

\* the application changes the epoch, after the end of the epoch
MlEpochChange ==
    /\ ml_app.past_end
    /\ ml_app.epoch < MaxMlEpoch
    /\ ml_app' = [ml_app EXCEPT !.epoch = @ + 1, !.past_end = FALSE]
    /\ UNCHANGED <<ml_loop, ml_shutdown, ml_command_rx, ml_net, ml_sub>>
    /\ UNCHANGED outsideMainLoop

\* select: the shutdown branch
LoopShutdown ==
    /\ LoopRunning
    /\ ml_shutdown
    /\ ml_loop' = [ml_loop EXCEPT !.state = "exited"]
    /\ UNCHANGED <<ml_shutdown, ml_command_rx, ml_net, ml_app, ml_sub>>
    /\ UNCHANGED outsideMainLoop

\* select: the command branch
LoopCommand ==
    /\ LoopRunning
    /\ ml_command_rx # <<>>
    /\ ml_command_rx' = Tail(ml_command_rx)
    /\ ml_loop' = [ml_loop EXCEPT !.state = handle_command(Head(ml_command_rx)),
                                  !.handled = @ + 1,
                                  !.last = Head(ml_command_rx)]
    /\ UNCHANGED <<ml_shutdown, ml_net, ml_app, ml_sub>>
    /\ UNCHANGED outsideMainLoop

\* select: the topology branch
LoopTopology ==
    /\ LoopRunning
    /\ ml_sub.w # <<>>
    /\ ml_sub' = [ml_sub EXCEPT !.w = Tail(@)]
    /\ ml_loop' = [ml_loop EXCEPT !.handled = @ + 1,
                                  !.last = "topology",
                                  !.applied = Head(ml_sub.w)]
    /\ UNCHANGED <<ml_shutdown, ml_command_rx, ml_net, ml_app>>
    /\ UNCHANGED outsideMainLoop

\* select: the branches of the outgoing connections, the frames and the listener
LoopNet ==
    \E e \in NetEvents :
        /\ LoopRunning
        /\ ml_net[e] > 0
        /\ ml_net' = [ml_net EXCEPT ![e] = @ - 1]
        /\ ml_loop' = [ml_loop EXCEPT !.handled = @ + 1, !.last = e]
        /\ UNCHANGED <<ml_shutdown, ml_command_rx, ml_app, ml_sub>>
        /\ UNCHANGED outsideMainLoop

\* Notifier::notify_on_new_epoch: the task sleeps, sends once and ends,
\* which drops the sender
NotifierTaskSends ==
    /\ ml_sub.notifier = "sleeping"
    /\ SleepOver
    /\ ml_sub' = [ml_sub EXCEPT !.notifier = "done",
                                !.rx = IF ml_sub.pc = "ended" THEN @ ELSE @ + 1]
    /\ UNCHANGED <<ml_loop, ml_shutdown, ml_command_rx, ml_net, ml_app>>
    /\ UNCHANGED outsideMainLoop

\* spawn_topology_subscriber: compute the topology and send it
SubscriberComputes ==
    /\ ml_sub.pc = "compute"
    /\ ml_sub' = IF LoopRunning
                 THEN [ml_sub EXCEPT !.w = Append(@, suggest_connections), !.pc = "wait"]
                 ELSE [ml_sub EXCEPT !.pc = "ended"]
    /\ UNCHANGED <<ml_loop, ml_shutdown, ml_command_rx, ml_net, ml_app>>
    /\ UNCHANGED outsideMainLoop

\* spawn_topology_subscriber: rx.recv() gives a notification
SubscriberWakes ==
    /\ ml_sub.pc = "wait"
    /\ ml_sub.rx > 0
    /\ ml_sub' = [ml_sub EXCEPT !.rx = @ - 1, !.pc = "compute"]
    /\ UNCHANGED <<ml_loop, ml_shutdown, ml_command_rx, ml_net, ml_app>>
    /\ UNCHANGED outsideMainLoop

\* spawn_topology_subscriber: rx.recv() gives None, the sender is gone
SubscriberEnds ==
    /\ ml_sub.pc = "wait"
    /\ ml_sub.rx = 0
    /\ ml_sub.notifier = "done"
    /\ ml_sub' = [ml_sub EXCEPT !.pc = "ended"]
    /\ UNCHANGED <<ml_loop, ml_shutdown, ml_command_rx, ml_net, ml_app>>
    /\ UNCHANGED outsideMainLoop

\* the three tasks: each is scheduled when it can make a step
MainLoopTask == LoopShutdown \/ LoopCommand \/ LoopTopology \/ LoopNet
SubscriberTask == SubscriberComputes \/ SubscriberWakes \/ SubscriberEnds
NotifierTask == NotifierTaskSends

MainLoopNext ==
    \/ ShutdownSignalled \/ SendCommand \/ NetArrives \/ MlClock \/ MlEpochChange
    \/ LoopShutdown \/ LoopCommand \/ LoopTopology \/ LoopNet
    \/ NotifierTaskSends \/ SubscriberComputes \/ SubscriberWakes \/ SubscriberEnds

\* C31: while the loop runs, after each epoch change the loop eventually
\* applies the topology of the new epoch.
C31_TopologyOfEveryEpochApplied ==
    \A e \in 1..MaxMlEpoch :
        (ml_app.epoch = e) ~> (~LoopRunning \/ ml_loop.applied >= e)

\* C32: handling a command of the command channel returns control to the
\* loop: no command stops it.
C32_CommandsKeepTheLoop ==
    [][ml_loop'.handled # ml_loop.handled /\ ml_loop'.last \in Commands
          => ml_loop'.state = "running"]_vars

\* C33: once shutdown has been signalled the loop handles no further
\* command, topology, connection or frame before it exits.
C33_ShutdownFirst ==
    [][ml_shutdown => ml_loop'.handled = ml_loop.handled]_vars

(***************************************************************************)
(* Fetcher: start, shutdown and is_running                                 *)
(*                                                                         *)
(* start() spawns the task that runs FetcherInner::start and then stores   *)
(* false into is_running; the caller stores true after the spawn.  The     *)
(* task runs on the runtime's workers, so its steps interleave with the    *)
(* caller's.  shutdown() puts a signal on the shutdown channel, whether    *)
(* a loop is there to take it or not.                                      *)
(***************************************************************************)
MaxStarts == 2
MaxSignals == 2
MaxFetcherRequests == 1

LoopTasks == 1..MaxStarts

\* the tasks that were spawned and have not stored false yet
AliveTasks == { t \in LoopTasks : fr_task[t] \in {"spawned", "loop", "returned"} }

FrInit ==
    /\ fr_is_running = FALSE
    /\ fr_caller = [pc |-> "idle", spawned |-> 0, refused |-> 0]
    /\ fr_task = [t \in LoopTasks |-> "none"]
    /\ fr_receivers = TRUE
    /\ fr_channels = [shutdown |-> 0, sent |-> 0, socket |-> 0, requests |-> 0]

\* Fetcher::start: the check of is_running and the spawn
FetcherStart ==
    /\ fr_caller.pc = "idle"
    /\ IF ~fr_is_running
       THEN /\ fr_caller.spawned < MaxStarts
            /\ fr_task' = [fr_task EXCEPT ![fr_caller.spawned + 1] = "spawned"]
            /\ fr_caller' = [fr_caller EXCEPT !.pc = "store", !.spawned = @ + 1]
       ELSE /\ fr_caller.refused < MaxStarts
            /\ fr_caller' = [fr_caller EXCEPT !.refused = @ + 1]
            /\ UNCHANGED fr_task
    /\ UNCHANGED <<fr_is_running, fr_receivers, fr_channels>>
    /\ UNCHANGED outsideRunning

\* Fetcher::start: is_running.store(true) after the spawn
FetcherStartStores ==
    /\ fr_caller.pc = "store"
    /\ fr_is_running' = TRUE
    /\ fr_caller' = [fr_caller EXCEPT !.pc = "idle"]
    /\ UNCHANGED <<fr_task, fr_receivers, fr_channels>>
    /\ UNCHANGED outsideRunning

\* Fetcher::shutdown
FetcherShutdown ==
    /\ fr_caller.pc = "idle"
    /\ fr_channels.sent < MaxSignals
    /\ fr_channels' = [fr_channels EXCEPT !.shutdown = @ + 1, !.sent = @ + 1]
    /\ UNCHANGED <<fr_is_running, fr_caller, fr_task, fr_receivers>>
    /\ UNCHANGED outsideRunning

\* a request is sent on the fetcher's socket
FetcherRequestArrives ==
    /\ fr_channels.requests < MaxFetcherRequests
    /\ fr_channels' = [fr_channels EXCEPT !.socket = @ + 1, !.requests = @ + 1]
    /\ UNCHANGED <<fr_is_running, fr_caller, fr_task, fr_receivers>>
    /\ UNCHANGED outsideRunning

\* FetcherInner::start: take the receivers out of their mutexes; take() of
\* None panics in unwrap
TaskTakesReceivers ==
    \E t \in LoopTasks :
        /\ fr_task[t] = "spawned"
        /\ fr_task' = [fr_task EXCEPT ![t] = IF fr_receivers THEN "loop" ELSE "panicked"]
        /\ fr_receivers' = FALSE
        /\ UNCHANGED <<fr_is_running, fr_caller, fr_channels>>
        /\ UNCHANGED outsideRunning

\* FetcherInner::start: the select takes a request and spawns its task
TaskTakesRequest ==
    \E t \in LoopTasks :
        /\ fr_task[t] = "loop"
        /\ fr_channels.socket > 0
        /\ fr_channels' = [fr_channels EXCEPT !.socket = @ - 1]
        /\ UNCHANGED <<fr_is_running, fr_caller, fr_task, fr_receivers>>
        /\ UNCHANGED outsideRunning

\* FetcherInner::start: the select takes the shutdown signal, the loop
\* breaks and the receivers are put back
TaskTakesShutdown ==
    \E t \in LoopTasks :
        /\ fr_task[t] = "loop"
        /\ fr_channels.shutdown > 0
        /\ fr_channels' = [fr_channels EXCEPT !.shutdown = @ - 1]
        /\ fr_task' = [fr_task EXCEPT ![t] = "returned"]
        /\ fr_receivers' = TRUE
        /\ UNCHANGED <<fr_is_running, fr_caller>>
        /\ UNCHANGED outsideRunning

\* the spawned task: is_running.store(false) after inner.start() returned
TaskStoresFalse ==
    \E t \in LoopTasks :
        /\ fr_task[t] = "returned"
        /\ fr_task' = [fr_task EXCEPT ![t] = "done"]
        /\ fr_is_running' = FALSE
        /\ UNCHANGED <<fr_caller, fr_receivers, fr_channels>>
        /\ UNCHANGED outsideRunning

RunningNext ==
    \/ FetcherStart \/ FetcherStartStores \/ FetcherShutdown \/ FetcherRequestArrives
    \/ TaskTakesReceivers \/ TaskTakesRequest \/ TaskTakesShutdown \/ TaskStoresFalse

\* C35: under every interleaving of the task with the caller, between the
\* calls of the caller is_running() is true exactly while a spawned task
\* has not finished, and no two loops run at once.
C35_IsRunningIffLoopAlive ==
    /\ fr_caller.pc = "idle" => (fr_is_running <=> AliveTasks # {})
    /\ Cardinality({ t \in LoopTasks : fr_task[t] = "loop" }) <= 1

(***************************************************************************)
(* Service executor: the callback of a service                             *)
(*                                                                         *)
(* handle_request runs on the thread of the service.  For a send it takes  *)
(* the sequence id at once; the put on the scheduler is left to a task it  *)
(* spawns, for a send and for a close alike.  The spawned tasks run in any *)
(* order.  Every work item is kept with the number of the call that issued *)
(* it.                                                                     *)
(***************************************************************************)
MaxIpcRequests == 3
NumServiceConnections == 2

ServiceConnections == 1..NumServiceConnections

SxInit ==
    /\ sx_sequence = [c \in ServiceConnections |-> 0]
    /\ sx_spawned = {}
    /\ sx_scheduler = <<>>
    /\ sx_calls = 0

\* CommandSender::next_sequence_id: the ids of a connection count up
next_sequence_id(connection_id) == sx_sequence[connection_id]

\* handle_request: Request::ConnectionSendData
RequestConnectionSendData ==
    \E connection_id \in ServiceConnections :
        LET sequence_id == next_sequence_id(connection_id)
        IN  /\ sx_calls < MaxIpcRequests
            /\ sx_calls' = sx_calls + 1
            /\ sx_sequence' = [sx_sequence EXCEPT ![connection_id] = @ + 1]
            /\ sx_spawned' = sx_spawned \cup
                   {[work |-> "Send", connection_id |-> connection_id,
                     sequence_id |-> sequence_id, call |-> sx_calls + 1]}
            /\ UNCHANGED sx_scheduler
            /\ UNCHANGED outsideCallback

\* handle_request: Request::ConnectionClose
RequestConnectionClose ==
    \E connection_id \in ServiceConnections :
        /\ sx_calls < MaxIpcRequests
        /\ sx_calls' = sx_calls + 1
        /\ sx_spawned' = sx_spawned \cup
               {[work |-> "Close", connection_id |-> connection_id,
                 sequence_id |-> 0, call |-> sx_calls + 1]}
        /\ UNCHANGED <<sx_sequence, sx_scheduler>>
        /\ UNCHANGED outsideCallback

\* a spawned task runs: scheduler.put(work)
SpawnedPut ==
    \E task \in sx_spawned :
        /\ sx_spawned' = sx_spawned \ {task}
        /\ sx_scheduler' = Append(sx_scheduler, task)
        /\ UNCHANGED <<sx_sequence, sx_calls>>
        /\ UNCHANGED outsideCallback

CallbackNext == RequestConnectionSendData \/ RequestConnectionClose \/ SpawnedPut

Issued == sx_spawned \cup { sx_scheduler[i] : i \in 1..Len(sx_scheduler) }

\* C36: the work items of one connection reach the scheduler in the order
\* they were issued: the sequence ids of its sends follow the order of the
\* calls, and a close issued after a send is never on the scheduler before
\* that send.
C36_WorkInIssueOrder ==
    /\ \A a, b \in Issued :
          a.work = "Send" /\ b.work = "Send" /\ a.connection_id = b.connection_id
          /\ a.call < b.call => a.sequence_id < b.sequence_id
    /\ \A i, j \in 1..Len(sx_scheduler) :
          /\ i < j
          /\ sx_scheduler[i].connection_id = sx_scheduler[j].connection_id
          /\ sx_scheduler[i].work = "Close" /\ sx_scheduler[j].work = "Send"
          => sx_scheduler[j].call > sx_scheduler[i].call
    /\ \A a \in sx_spawned, i \in 1..Len(sx_scheduler) :
          /\ a.connection_id = sx_scheduler[i].connection_id
          /\ a.work = "Send" /\ sx_scheduler[i].work = "Close"
          => a.call > sx_scheduler[i].call

(***************************************************************************)
(* DHT pool worker: one ping task                                          *)
(*                                                                         *)
(* ping(dst, timeout) draws the id and the token of the task, spawns the   *)
(* task and saves its TaskInfo.  The task sends the ping and waits for the *)
(* sleep or for the oneshot, whichever completes first.  The worker        *)
(* handles the PONG messages of the socket, removes the TaskInfo of a task *)
(* that ended, and drops every TaskInfo when it stops.                     *)
(***************************************************************************)
NumPingNodes == 2
NumPingTokens == 2
NumPingIds == 2
MaxPongs == 2

PingNodes == 1..NumPingNodes
PingTokens == 1..NumPingTokens
PingIds == 1..NumPingIds
NoPong == 0
Dropped == -1

\* mutant of pong_accepted: the sender of the pong is not compared
pong_accepted_from_anyone(ping_info, token, from) == ping_info.token = token

\* PoolWorker::handle_pong: the comparison
pong_accepted(ping_info, token, from) ==
    ping_info.token = token /\ ping_info.dst = from

PgInit ==
    /\ \E id \in PingIds, token \in PingTokens, dst \in PingNodes :
          pg_ongoing = [present |-> TRUE, id |-> id, token |-> token, dst |-> dst,
                        pong_event_respond |-> TRUE]
    /\ pg_task = [pc |-> "send", attempts |-> 2, pings |-> 0, ponged |-> NoPong]
    /\ pg_rx = NoPong
    /\ pg_events = <<>>
    /\ pg_net = [pongs |-> 0, valid |-> FALSE, last |-> "none"]

\* the task: socket.send(ping)
PingSends ==
    \E delivered \in BOOLEAN :
        /\ pg_task.pc = "send"
        /\ pg_task' = IF delivered
                      THEN [pg_task EXCEPT !.pc = "wait", !.pings = @ + 1]
                      ELSE [pg_task EXCEPT !.pc = "report", !.ponged = NoPong]
        /\ UNCHANGED <<pg_ongoing, pg_rx, pg_events, pg_net>>
        /\ UNCHANGED outsidePing

\* the task: the sleep completes first
PingTimeout ==
    /\ pg_task.pc = "wait"
    /\ pg_rx = NoPong
    /\ pg_task' = IF pg_task.attempts - 1 = 0
                  THEN [pg_task EXCEPT !.attempts = @ - 1, !.pc = "report", !.ponged = NoPong]
                  ELSE [pg_task EXCEPT !.attempts = @ - 1, !.pc = "send"]
    /\ UNCHANGED <<pg_ongoing, pg_rx, pg_events, pg_net>>
    /\ UNCHANGED outsidePing

\* the task: the oneshot completes first, with the node or with the error
\* of a dropped sender
PingPonged ==
    /\ pg_task.pc = "wait"
    /\ pg_rx # NoPong
    /\ pg_task' = [pg_task EXCEPT !.pc = "report", !.ponged = pg_rx]
    /\ UNCHANGED <<pg_ongoing, pg_rx, pg_events, pg_net>>
    /\ UNCHANGED outsidePing

\* the task: the event it sends before it ends
PingReports ==
    /\ pg_task.pc = "report"
    /\ pg_events' = Append(pg_events,
                       IF pg_task.ponged \in {NoPong, Dropped}
                       THEN [event |-> "Unresponsive", index |-> pg_ongoing.dst]
                       ELSE [event |-> "Pong", index |-> pg_task.ponged])
    /\ pg_task' = [pg_task EXCEPT !.pc = "done"]
    /\ UNCHANGED <<pg_ongoing, pg_rx, pg_net>>
    /\ UNCHANGED outsidePing

\* PoolWorker::handle_pong
HandlePongOf(id, token, from) ==
    LET found == pg_ongoing.present /\ pg_ongoing.id = id
        matches == found /\ pong_accepted(pg_ongoing, token, from)
        taken == matches /\ pg_ongoing.pong_event_respond
    IN  /\ pg_net.pongs < MaxPongs
        /\ pg_ongoing' = IF taken THEN [pg_ongoing EXCEPT !.pong_event_respond = FALSE]
                         ELSE pg_ongoing
        /\ pg_rx' = IF taken /\ pg_task.pc \in {"send", "wait"} THEN from ELSE pg_rx
        /\ pg_net' = [pongs |-> pg_net.pongs + 1,
                      valid |-> pg_net.valid \/
                                (id = pg_ongoing.id /\ token = pg_ongoing.token
                                 /\ from = pg_ongoing.dst),
                      last |-> IF taken THEN "sent" ELSE IF matches THEN "second"
                               ELSE "ignored"]
        /\ UNCHANGED <<pg_task, pg_events>>
        /\ UNCHANGED outsidePing

HandlePong ==
    \E id \in PingIds, token \in PingTokens, from \in PingNodes : HandlePongOf(id, token, from)

\* PoolWorker::run: the task ended and cleanup(id) removes its TaskInfo
PingCleanup ==
    /\ pg_task.pc = "done"
    /\ pg_ongoing.present
    /\ pg_ongoing' = [pg_ongoing EXCEPT !.present = FALSE, !.pong_event_respond = FALSE]
    /\ UNCHANGED <<pg_task, pg_rx, pg_events, pg_net>>
    /\ UNCHANGED outsidePing

\* PoolWorker::run ends: the worker and every TaskInfo are dropped
WorkerStops ==
    /\ pg_ongoing.present
    /\ pg_task.pc # "done"
    /\ pg_ongoing' = [pg_ongoing EXCEPT !.present = FALSE, !.pong_event_respond = FALSE]
    /\ pg_rx' = IF pg_ongoing.pong_event_respond /\ pg_rx = NoPong THEN Dropped ELSE pg_rx
    /\ UNCHANGED <<pg_task, pg_events, pg_net>>
    /\ UNCHANGED outsidePing

PingNext ==
    \/ PingSends \/ PingTimeout \/ PingPonged \/ PingReports
    \/ HandlePong \/ PingCleanup \/ WorkerStops

NumFilterAddrs == 2
MaxFilterCalls == 2

FilterAddrs == 1..NumFilterAddrs
FilterCalls == 1..MaxFilterCalls
NoHolder == 0
NoFilterCall == [pc |-> "none", op |-> "none", addr |-> 0, result |-> "none", guards |-> 0]

PfInit ==
    /\ pf_map \in SUBSET FilterAddrs
    /\ pf_rules = pf_map
    /\ pf_lock = NoHolder
    /\ pf_call = [c \in FilterCalls |-> NoFilterCall]

\* the call returns: its guards are dropped
PfReturn(c, result) ==
    /\ pf_call' = [pf_call EXCEPT ![c].pc = "returned", ![c].result = result, ![c].guards = 0]
    /\ pf_lock' = IF pf_lock = c THEN NoHolder ELSE pf_lock

\* packet_filter_add or packet_filter_remove is called
PacketFilterCall ==
    \E c \in FilterCalls, op \in {"add", "remove"}, addr \in FilterAddrs :
        /\ pf_call[c].pc = "none"
        /\ pf_call' = [pf_call EXCEPT ![c] = [pc |-> "lock", op |-> op, addr |-> addr,
                                              result |-> "none", guards |-> 0]]
        /\ UNCHANGED <<pf_map, pf_rules, pf_lock>>
        /\ UNCHANGED outsideFilters

\* packet_filter_add, packet_filter_remove: self.packet_filters.lock().await
PacketFilterLock ==
    \E c \in FilterCalls :
        /\ pf_call[c].pc = "lock"
        /\ pf_lock = NoHolder
        /\ pf_lock' = c
        /\ pf_call' = [pf_call EXCEPT ![c].pc = "update", ![c].guards = 1]
        /\ UNCHANGED <<pf_map, pf_rules>>
        /\ UNCHANGED outsideFilters

\* packet_filter_add, packet_filter_remove: map.insert or map.remove, and
\* the call of sync_packet_filters
PacketFilterUpdate ==
    \E c \in FilterCalls, updated \in BOOLEAN :
        /\ pf_call[c].pc = "update"
        /\ IF updated
           THEN /\ pf_map' = IF pf_call[c].op = "add" THEN pf_map \cup {pf_call[c].addr}
                             ELSE pf_map \ {pf_call[c].addr}
                /\ pf_call' = [pf_call EXCEPT ![c].pc = "create"]
                /\ UNCHANGED pf_lock
           ELSE /\ PfReturn(c, "Err")
                /\ UNCHANGED pf_map
        /\ UNCHANGED pf_rules
        /\ UNCHANGED outsideFilters

\* sync_packet_filters: the temporary file is created, then
\* self.packet_filters.lock().await, which completes when the mutex is
\* free; then the rules are written and the file is renamed
SyncPacketFilters ==
    \E c \in FilterCalls, created \in BOOLEAN, written \in BOOLEAN :
        /\ pf_call[c].pc \in {"create", "sync_lock"}
        /\ pf_call[c].pc = "sync_lock" => pf_lock = NoHolder
        /\ IF pf_call[c].pc = "create" /\ ~created
           THEN /\ PfReturn(c, "Err")
                /\ UNCHANGED pf_rules
           ELSE IF pf_lock = NoHolder
           THEN /\ pf_rules' = IF written THEN pf_map ELSE pf_rules
                /\ PfReturn(c, IF written THEN "Ok" ELSE "Err")
           ELSE /\ pf_call' = [pf_call EXCEPT ![c].pc = "sync_lock"]
                /\ UNCHANGED <<pf_lock, pf_rules>>
        /\ UNCHANGED pf_map
        /\ UNCHANGED outsideFilters

FiltersNext ==
    PacketFilterCall \/ PacketFilterLock \/ PacketFilterUpdate \/ SyncPacketFilters

\* C38: packet_filter_add and packet_filter_remove always return: no call
\* waits for a lock that the same call is still holding.
C38_NoCallWaitsForItsOwnLock ==
    \A c \in FilterCalls : pf_call[c].pc = "sync_lock" => pf_lock # c

(***************************************************************************)
(* simulon: Simulation::run and the worker threads                         *)
(*                                                                         *)
(* The main thread and the workers share the atomics frame, cursor and     *)
(* ready_workers.  Every load, store and fetch_add is one step.            *)
(***************************************************************************)
MaxSimWorkers == 2
MaxSimNodes == 2
MaxSimFrames == 2
UsizeMax == 2147483647

min(a, b) == IF a <= b THEN a ELSE b

\* SimulationBuilder::build: the number of workers
num_workers_of(requested, num_nodes) == min(min(requested, 1), num_nodes)

SimWorkers == 1..MaxSimWorkers

\* usize addition: a debug build panics on overflow, a release build wraps
wrapping_add_one(n) == IF n = UsizeMax THEN 0 ELSE n + 1

SimInit ==
    /\ \E requested \in 1..MaxSimWorkers, num_nodes \in 1..MaxSimNodes, n \in 0..MaxSimFrames :
          sim = [pc |-> "start", num_workers |-> num_workers_of(requested, num_nodes),
                 num_nodes |-> num_nodes, n |-> n, done |-> 0, saved |-> 0, workers |-> {}]
    /\ sim_atomics = [frame |-> 0, cursor |-> 0, ready_workers |-> 0]
    /\ sim_worker = [w \in SimWorkers |-> [pc |-> "none", current_frame |-> 0, executed |-> 0]]

\* Simulation::start_threads: the threads are spawned, their handles dropped
StartThreads ==
    /\ sim.pc = "start"
    /\ sim_worker' = [w \in SimWorkers |->
                         IF w <= sim.num_workers
                         THEN [sim_worker[w] EXCEPT !.pc = "load"] ELSE sim_worker[w]]
    /\ sim' = [sim EXCEPT !.pc = "frames"]
    /\ UNCHANGED sim_atomics
    /\ UNCHANGED outsideSimulation

\* Simulation::run: wait_for_workers returned; ready_workers and cursor are reset
RunResets ==
    /\ sim.pc = "frames"
    /\ sim.done < sim.n
    /\ sim_atomics.ready_workers = sim.num_workers
    /\ sim_atomics' = [sim_atomics EXCEPT !.ready_workers = 0, !.cursor = 0]
    /\ sim' = [sim EXCEPT !.pc = "advance"]
    /\ UNCHANGED sim_worker
    /\ UNCHANGED outsideSimulation

\* Simulation::run: frame.fetch_add(1)
RunAdvances ==
    /\ sim.pc = "advance"
    /\ sim_atomics' = [sim_atomics EXCEPT !.frame = wrapping_add_one(@)]
    /\ sim' = [sim EXCEPT !.pc = "frames", !.done = @ + 1]
    /\ UNCHANGED sim_worker
    /\ UNCHANGED outsideSimulation

\* Simulation::stop_threads: the frame is saved and usize::MAX stored
StopThreads ==
    /\ sim.pc = "frames"
    /\ sim.done = sim.n
    /\ sim' = [sim EXCEPT !.pc = "join", !.saved = sim_atomics.frame]
    /\ sim_atomics' = [sim_atomics EXCEPT !.frame = UsizeMax]
    /\ UNCHANGED sim_worker
    /\ UNCHANGED outsideSimulation

\* Simulation::stop_threads: every handle of self.workers is joined, the
\* frame is restored and run returns
StopThreadsJoined ==
    /\ sim.pc = "join"
    /\ \A w \in sim.workers : sim_worker[w].pc \in {"exited", "skipped", "overflow"}
    /\ sim_atomics' = [sim_atomics EXCEPT !.frame = sim.saved]
    /\ sim' = [sim EXCEPT !.pc = "returned"]
    /\ UNCHANGED sim_worker
    /\ UNCHANGED outsideSimulation

\* worker_loop: current_frame = state.frame.load()
WorkerLoads ==
    \E w \in SimWorkers :
        /\ sim_worker[w].pc = "load"
        /\ sim_worker' = [sim_worker EXCEPT ![w].pc = "ready",
                                            ![w].current_frame = sim_atomics.frame]
        /\ UNCHANGED <<sim, sim_atomics>>
        /\ UNCHANGED outsideSimulation

\* worker_loop: ready_workers.fetch_add(1)
WorkerReady ==
    \E w \in SimWorkers :
        /\ sim_worker[w].pc = "ready"
        /\ sim_atomics.ready_workers < MaxSimWorkers + MaxSimFrames + 1
        /\ sim_atomics' = [sim_atomics EXCEPT !.ready_workers = @ + 1]
        /\ sim_worker' = [sim_worker EXCEPT ![w].pc = "wait"]
        /\ UNCHANGED sim
        /\ UNCHANGED outsideSimulation

\* wait_for_next_frame: one load of the frame that ends the spinning; the
\* thread ends with a panic when the frame was skipped, or when
\* current_frame + 1 overflows in a build that checks it
WaitForNextFrame ==
    \E w \in SimWorkers, debug_build \in BOOLEAN :
        LET frame == sim_atomics.frame
            current_frame == sim_worker[w].current_frame
            outcome == IF frame = UsizeMax THEN "exited"
                       ELSE IF current_frame = UsizeMax /\ debug_build THEN "overflow"
                       ELSE IF frame = wrapping_add_one(current_frame) THEN "nodes"
                       ELSE IF frame > current_frame THEN "skipped"
                       ELSE "wait"
        IN  /\ sim_worker[w].pc = "wait"
            /\ outcome # "wait"
            /\ sim_worker' = [sim_worker EXCEPT ![w].pc = outcome]
            /\ UNCHANGED <<sim, sim_atomics>>
            /\ UNCHANGED outsideSimulation

\* worker_loop: cursor.fetch_add(1) and the node of that index, or the end
\* of the frame
WorkerNode ==
    \E w \in SimWorkers, debug_build \in BOOLEAN :
        LET index == sim_atomics.cursor
        IN  /\ sim_worker[w].pc = "nodes"
            /\ sim_atomics' = [sim_atomics EXCEPT !.cursor = @ + 1]
            /\ sim_worker' =
                 IF index >= sim.num_nodes
                 THEN IF sim_worker[w].current_frame = UsizeMax /\ debug_build
                      THEN [sim_worker EXCEPT ![w].pc = "overflow"]
                      ELSE [sim_worker EXCEPT ![w].pc = "ready",
                               ![w].current_frame = wrapping_add_one(@)]
                 ELSE [sim_worker EXCEPT ![w].executed = min(@ + 1, MaxSimNodes)]
            /\ UNCHANGED sim
            /\ UNCHANGED outsideSimulation

SimulationNext ==
    \/ StartThreads \/ RunResets \/ RunAdvances \/ StopThreads \/ StopThreadsJoined
    \/ WorkerLoads \/ WorkerReady \/ WaitForNextFrame \/ WorkerNode

\* C39: when run returns every worker it started has observed the stop
\* signal and left its loop, and no worker ever observes a skipped frame.
C39_WorkersStoppedAtReturn ==
    /\ sim.pc = "returned" =>
          \A w \in SimWorkers : w <= sim.num_workers => sim_worker[w].pc = "exited"
    /\ \A w \in SimWorkers : sim_worker[w].pc # "skipped"

(***************************************************************************)
(* b3fs: the iterator over the leaves of a hash tree                       *)
(* (lib/b3fs/src/collections/tree.rs).                                     *)
(***************************************************************************)
MaxIterLeaves == 4
MaxIterCalls == 3
MaxIterSkip == 2

\* None of Option<&[u8; 32]>.
NoLeaf == -1

RECURSIVE count_ones(_)
count_ones(i) == IF i = 0 THEN 0 ELSE (i % 2) + count_ones(i \div 2)

\* The position of leaf i in the post-order flat slice.
tree_index(i) == 2 * i - count_ones(i)

\* HashTree::len of a tree of inner_len hashes.
tree_len(inner_len) == (inner_len + 1) \div 2

\* HashTreeIter::new over a valid tree of 2n-1 hashes; the items are written
\* as positions of the flat slice.
HtiInit ==
    /\ \E n \in 1..MaxIterLeaves :
          hti = [forward |-> 0, backward |-> tree_len(2 * n - 1), inner_len |-> 2 * n - 1]
    /\ hti_taken = <<>>
    /\ hti_last = [op |-> "new", n |-> 0, forward |-> 0, backward |-> 0, result |-> NoLeaf]
    /\ hti_calls = 0

is_done(it) == it.forward >= it.backward

\* Iterator::next: the iterator after the call and the item.
iter_next(it) ==
    IF is_done(it) THEN [it |-> it, item |-> NoLeaf]
    ELSE [it |-> [it EXCEPT !.forward = @ + 1], item |-> tree_index(it.forward)]

iter_nth(it, n) == iter_next([it EXCEPT !.forward = @ + n])

iter_next_back(it) ==
    IF is_done(it) THEN [it |-> it, item |-> NoLeaf]
    ELSE [it |-> [it EXCEPT !.backward = @ - 1], item |-> tree_index(it.backward - 1)]

iter_nth_back(it, n) == iter_next([it EXCEPT !.backward = saturating_sub(@, n)])

HtiCall(op, n, side, out) ==
    /\ hti_calls < MaxIterCalls
    /\ hti_calls' = hti_calls + 1
    /\ hti' = out.it
    /\ hti_taken' = IF out.item = NoLeaf THEN hti_taken
                    ELSE Append(hti_taken, [side |-> side, item |-> out.item])
    /\ hti_last' = [op |-> op, n |-> n, forward |-> hti.forward, backward |-> hti.backward,
                    result |-> out.item]
    /\ UNCHANGED outsideTreeIter

IterNext == HtiCall("next", 0, "front", iter_next(hti))

IterNth == \E n \in 0..MaxIterSkip : HtiCall("nth", n, "front", iter_nth(hti, n))

IterNextBack == HtiCall("next_back", 0, "back", iter_next_back(hti))

IterNthBack == \E n \in 0..MaxIterSkip : HtiCall("nth_back", n, "back", iter_nth_back(hti, n))

TreeIterNext == IterNext \/ IterNth \/ IterNextBack \/ IterNthBack

\* C40: nth_back(n) skips n leaves from the back and returns the next leaf
\* from the back (none when fewer than n + 1 leaves are left), and no leaf is
\* handed out twice, whichever end it was taken from.
C40_NthBackFromTheBack ==
    /\ hti_last.op = "nth_back" =>
          hti_last.result =
              IF hti_last.n < saturating_sub(hti_last.backward, hti_last.forward)
              THEN tree_index(hti_last.backward - 1 - hti_last.n) ELSE NoLeaf
    /\ \A i, j \in 1..Len(hti_taken) : i # j => hti_taken[i].item # hti_taken[j].item

(***************************************************************************)
(* Constructed values of the subsystems                                    *)
(***************************************************************************)
VerConstructed ==
    /\ collect = FALSE
    /\ overflow_checks = FALSE
    /\ seeded = <<>>
    /\ stack = <<>>
    /\ parent_count = 0
    /\ counter = 0
    /\ tree = <<>>
    /\ last_result = "none"
    /\ accepted = <<>>

BcConstructed == BcInit

HsConstructed == HsInit

CsConstructed ==
    /\ cs_epoch = 0
    /\ committee = [e \in CsEpochs |-> FALSE]
    /\ cs_now = 0
    /\ cs_pc = "start"
    /\ consensus = NoService
    /\ running = {}
    /\ started = 0
    /\ edge_node = FALSE
    /\ shutdown_pending = FALSE
    /\ reconfigure_pending = FALSE
    /\ shutdown_notified = FALSE
    /\ tasks = <<>>
    /\ submitted = <<>>
    /\ cs_select = [branch |-> "pending", shutdown |-> FALSE, reconfigure |-> FALSE]

RsConstructed == RsInit

FtConstructed == FtInit

DemoConstructed == demo = NoDemo

TpConstructed == TpInit

HttpConstructed == HttpInit

FxConstructed == fx_blockstore = FALSE /\ fx = NoFetch

NtConstructed == NtInit

SyConstructed == SyInit

StkConstructed == StkInit

PoolConstructed == PoolInit

MlConstructed == MlInit

HfConstructed == HfInit

FrConstructed == FrInit

SxConstructed == SxInit

PgConstructed ==
    /\ pg_ongoing = [present |-> FALSE, id |-> 1, token |-> 1, dst |-> 1, pong_event_respond |-> FALSE]
    /\ pg_task = [pc |-> "done", attempts |-> 0, pings |-> 0, ponged |-> NoPong]
    /\ pg_rx = NoPong
    /\ pg_events = <<>>
    /\ pg_net = [pongs |-> 0, valid |-> FALSE, last |-> "none"]

PfConstructed ==
    /\ pf_map = {}
    /\ pf_rules = {}
    /\ pf_lock = NoHolder
    /\ pf_call = [c \in FilterCalls |-> NoFilterCall]

SimConstructed ==
    /\ sim = [pc |-> "start", num_workers |-> 1, num_nodes |-> 1, n |-> 0, done |-> 0,
              saved |-> 0, workers |-> {}]
    /\ sim_atomics = [frame |-> 0, cursor |-> 0, ready_workers |-> 0]
    /\ sim_worker = [w \in SimWorkers |-> [pc |-> "none", current_frame |-> 0, executed |-> 0]]

HtiConstructed ==
    /\ hti = [forward |-> 0, backward |-> 1, inner_len |-> 1]
    /\ hti_taken = <<>>
    /\ hti_last = [op |-> "new", n |-> 0, forward |-> 0, backward |-> 0, result |-> NoLeaf]
    /\ hti_calls = 0

ExtConstructed == CsConstructed /\ RsConstructed /\ FtConstructed /\ DemoConstructed /\ TpConstructed /\ HttpConstructed /\ FxConstructed /\ NtConstructed /\ SyConstructed /\ StkConstructed /\ PoolConstructed /\ MlConstructed /\ HfConstructed /\ FrConstructed /\ SxConstructed /\ PgConstructed /\ PfConstructed /\ SimConstructed /\ HtiConstructed

AppConstructed ==
    /\ app = CHOOSE st \in AppInitStates : Cardinality(st.members) = NumNodes
    /\ response = NoResponse
    /\ validated = NoValidation

InitApp == AppInit /\ VerConstructed /\ BcConstructed /\ HsConstructed /\ ExtConstructed
SpecApp == InitApp /\ [][AppNext]_vars

InitVerifier == VerInit /\ AppConstructed /\ BcConstructed /\ HsConstructed /\ ExtConstructed
SpecVerifier == InitVerifier /\ [][VerNext]_vars

InitHandshake == HsInit /\ AppConstructed /\ VerConstructed /\ BcConstructed /\ ExtConstructed
SpecHandshake == InitHandshake /\ [][HsNext]_vars

InitBroadcast == BcInit /\ AppConstructed /\ VerConstructed /\ HsConstructed /\ ExtConstructed
SpecBroadcast == InitBroadcast /\ [][BcNext]_vars

SpecGossip == InitBroadcast /\ [][GossipNext]_vars

InitConsensus == CsInit /\ AppConstructed /\ VerConstructed /\ BcConstructed /\ HsConstructed /\ RsConstructed /\ FtConstructed /\ DemoConstructed /\ TpConstructed /\ HttpConstructed /\ FxConstructed /\ NtConstructed /\ SyConstructed /\ StkConstructed /\ PoolConstructed /\ MlConstructed /\ HfConstructed /\ FrConstructed /\ SxConstructed /\ PgConstructed /\ PfConstructed /\ SimConstructed /\ HtiConstructed
SpecConsensus == InitConsensus /\ [][CsNext]_vars

InitResolver == RsInit /\ AppConstructed /\ VerConstructed /\ BcConstructed /\ HsConstructed /\ CsConstructed /\ FtConstructed /\ DemoConstructed /\ TpConstructed /\ HttpConstructed /\ FxConstructed /\ NtConstructed /\ SyConstructed /\ StkConstructed /\ PoolConstructed /\ MlConstructed /\ HfConstructed /\ FrConstructed /\ SxConstructed /\ PgConstructed /\ PfConstructed /\ SimConstructed /\ HtiConstructed
SpecResolver == InitResolver /\ [][RsNext]_vars

InitFetcher == FtInit /\ AppConstructed /\ VerConstructed /\ BcConstructed /\ HsConstructed /\ CsConstructed /\ RsConstructed /\ DemoConstructed /\ TpConstructed /\ HttpConstructed /\ FxConstructed /\ NtConstructed /\ SyConstructed /\ StkConstructed /\ PoolConstructed /\ MlConstructed /\ HfConstructed /\ FrConstructed /\ SxConstructed /\ PgConstructed /\ PfConstructed /\ SimConstructed /\ HtiConstructed
SpecFetcher == InitFetcher /\ [][FtNext]_vars

InitDemo == DemoInit /\ AppConstructed /\ BcConstructed /\ HsConstructed /\ CsConstructed /\ RsConstructed /\ FtConstructed /\ TpConstructed /\ HttpConstructed /\ FxConstructed /\ NtConstructed /\ SyConstructed /\ StkConstructed /\ PoolConstructed /\ MlConstructed /\ HfConstructed /\ FrConstructed /\ SxConstructed /\ PgConstructed /\ PfConstructed /\ SimConstructed /\ HtiConstructed
SpecDemo == InitDemo /\ [][DemoNext]_vars

InitTopology == BcInit /\ TpInit /\ AppConstructed /\ VerConstructed /\ HsConstructed /\ CsConstructed /\ RsConstructed /\ FtConstructed /\ DemoConstructed /\ HttpConstructed /\ FxConstructed /\ NtConstructed /\ SyConstructed /\ StkConstructed /\ PoolConstructed /\ MlConstructed /\ HfConstructed /\ FrConstructed /\ SxConstructed /\ PgConstructed /\ PfConstructed /\ SimConstructed /\ HtiConstructed
SpecTopology == InitTopology /\ [][TopologyNext]_vars

InitHttp == HttpInit /\ AppConstructed /\ VerConstructed /\ BcConstructed /\ HsConstructed /\ CsConstructed /\ RsConstructed /\ FtConstructed /\ DemoConstructed /\ TpConstructed /\ FxConstructed /\ NtConstructed /\ SyConstructed /\ StkConstructed /\ PoolConstructed /\ MlConstructed /\ HfConstructed /\ FrConstructed /\ SxConstructed /\ PgConstructed /\ PfConstructed /\ SimConstructed /\ HtiConstructed
SpecHttp == InitHttp /\ [][HttpNext]_vars

InitFetch == FxInit /\ AppConstructed /\ VerConstructed /\ BcConstructed /\ HsConstructed /\ CsConstructed /\ RsConstructed /\ FtConstructed /\ DemoConstructed /\ TpConstructed /\ HttpConstructed /\ NtConstructed /\ SyConstructed /\ StkConstructed /\ PoolConstructed /\ MlConstructed /\ HfConstructed /\ FrConstructed /\ SxConstructed /\ PgConstructed /\ PfConstructed /\ SimConstructed /\ HtiConstructed
SpecFetch == InitFetch /\ [][FetchNext]_vars

InitNotifier == NtInit /\ AppConstructed /\ VerConstructed /\ BcConstructed /\ HsConstructed /\ CsConstructed /\ RsConstructed /\ FtConstructed /\ DemoConstructed /\ TpConstructed /\ HttpConstructed /\ FxConstructed /\ SyConstructed /\ StkConstructed /\ PoolConstructed /\ MlConstructed /\ HfConstructed /\ FrConstructed /\ SxConstructed /\ PgConstructed /\ PfConstructed /\ SimConstructed /\ HtiConstructed
SpecNotifier == InitNotifier /\ [][NtNext]_vars

InitSyncronizer == SyInit /\ AppConstructed /\ VerConstructed /\ BcConstructed /\ HsConstructed /\ CsConstructed /\ RsConstructed /\ FtConstructed /\ DemoConstructed /\ TpConstructed /\ HttpConstructed /\ FxConstructed /\ NtConstructed /\ StkConstructed /\ PoolConstructed /\ MlConstructed /\ HfConstructed /\ FrConstructed /\ SxConstructed /\ PgConstructed /\ PfConstructed /\ SimConstructed /\ HtiConstructed
SpecSyncronizer == InitSyncronizer /\ [][SyNext]_vars

InitStaking == StkInit /\ AppConstructed /\ VerConstructed /\ BcConstructed /\ HsConstructed /\ CsConstructed /\ RsConstructed /\ FtConstructed /\ DemoConstructed /\ TpConstructed /\ HttpConstructed /\ FxConstructed /\ NtConstructed /\ SyConstructed /\ PoolConstructed /\ MlConstructed /\ HfConstructed /\ FrConstructed /\ SxConstructed /\ PgConstructed /\ PfConstructed /\ SimConstructed /\ HtiConstructed
SpecStaking == InitStaking /\ [][StkNext]_vars

InitPool == PoolInit /\ AppConstructed /\ VerConstructed /\ BcConstructed /\ HsConstructed /\ CsConstructed /\ RsConstructed /\ FtConstructed /\ DemoConstructed /\ TpConstructed /\ HttpConstructed /\ FxConstructed /\ NtConstructed /\ SyConstructed /\ StkConstructed /\ MlConstructed /\ HfConstructed /\ FrConstructed /\ SxConstructed /\ PgConstructed /\ PfConstructed /\ SimConstructed /\ HtiConstructed
SpecPool == InitPool /\ [][PoolNext]_vars

InitMainLoop == MlInit /\ AppConstructed /\ VerConstructed /\ BcConstructed /\ HsConstructed /\ CsConstructed /\ RsConstructed /\ FtConstructed /\ DemoConstructed /\ TpConstructed /\ HttpConstructed /\ FxConstructed /\ NtConstructed /\ SyConstructed /\ StkConstructed /\ PoolConstructed /\ HfConstructed /\ FrConstructed /\ SxConstructed /\ PgConstructed /\ PfConstructed /\ SimConstructed /\ HtiConstructed
SpecMainLoop == InitMainLoop /\ [][MainLoopNext]_vars
FairMainLoop ==
    /\ InitMainLoop /\ [][MainLoopNext]_vars
    /\ WF_vars(MainLoopTask) /\ WF_vars(SubscriberTask) /\ WF_vars(NotifierTask)

InitFrames == HfInit /\ AppConstructed /\ VerConstructed /\ BcConstructed /\ HsConstructed /\ CsConstructed /\ RsConstructed /\ FtConstructed /\ DemoConstructed /\ TpConstructed /\ HttpConstructed /\ FxConstructed /\ NtConstructed /\ SyConstructed /\ StkConstructed /\ PoolConstructed /\ MlConstructed /\ FrConstructed /\ SxConstructed /\ PgConstructed /\ PfConstructed /\ SimConstructed /\ HtiConstructed
SpecFrames == InitFrames /\ [][FramesNext]_vars

InitRunning == FrInit /\ AppConstructed /\ VerConstructed /\ BcConstructed /\ HsConstructed /\ CsConstructed /\ RsConstructed /\ FtConstructed /\ DemoConstructed /\ TpConstructed /\ HttpConstructed /\ FxConstructed /\ NtConstructed /\ SyConstructed /\ StkConstructed /\ PoolConstructed /\ MlConstructed /\ HfConstructed /\ SxConstructed /\ PgConstructed /\ PfConstructed /\ SimConstructed /\ HtiConstructed
SpecRunning == InitRunning /\ [][RunningNext]_vars

InitCallback == SxInit /\ AppConstructed /\ VerConstructed /\ BcConstructed /\ HsConstructed /\ CsConstructed /\ RsConstructed /\ FtConstructed /\ DemoConstructed /\ TpConstructed /\ HttpConstructed /\ FxConstructed /\ NtConstructed /\ SyConstructed /\ StkConstructed /\ PoolConstructed /\ MlConstructed /\ HfConstructed /\ FrConstructed /\ PgConstructed /\ PfConstructed /\ SimConstructed /\ HtiConstructed
SpecCallback == InitCallback /\ [][CallbackNext]_vars

InitPing == PgInit /\ AppConstructed /\ VerConstructed /\ BcConstructed /\ HsConstructed /\ CsConstructed /\ RsConstructed /\ FtConstructed /\ DemoConstructed /\ TpConstructed /\ HttpConstructed /\ FxConstructed /\ NtConstructed /\ SyConstructed /\ StkConstructed /\ PoolConstructed /\ MlConstructed /\ HfConstructed /\ FrConstructed /\ SxConstructed /\ PfConstructed /\ SimConstructed /\ HtiConstructed
SpecPing == InitPing /\ [][PingNext]_vars

InitFilters == PfInit /\ AppConstructed /\ VerConstructed /\ BcConstructed /\ HsConstructed /\ CsConstructed /\ RsConstructed /\ FtConstructed /\ DemoConstructed /\ TpConstructed /\ HttpConstructed /\ FxConstructed /\ NtConstructed /\ SyConstructed /\ StkConstructed /\ PoolConstructed /\ MlConstructed /\ HfConstructed /\ FrConstructed /\ SxConstructed /\ PgConstructed /\ SimConstructed /\ HtiConstructed
SpecFilters == InitFilters /\ [][FiltersNext]_vars

InitSimulation == SimInit /\ AppConstructed /\ VerConstructed /\ BcConstructed /\ HsConstructed /\ CsConstructed /\ RsConstructed /\ FtConstructed /\ DemoConstructed /\ TpConstructed /\ HttpConstructed /\ FxConstructed /\ NtConstructed /\ SyConstructed /\ StkConstructed /\ PoolConstructed /\ MlConstructed /\ HfConstructed /\ FrConstructed /\ SxConstructed /\ PgConstructed /\ PfConstructed /\ HtiConstructed
SpecSimulation == InitSimulation /\ [][SimulationNext]_vars

InitTreeIter == HtiInit /\ AppConstructed /\ VerConstructed /\ BcConstructed /\ HsConstructed /\ CsConstructed /\ RsConstructed /\ FtConstructed /\ DemoConstructed /\ TpConstructed /\ HttpConstructed /\ FxConstructed /\ NtConstructed /\ SyConstructed /\ StkConstructed /\ PoolConstructed /\ MlConstructed /\ HfConstructed /\ FrConstructed /\ SxConstructed /\ PgConstructed /\ PfConstructed /\ SimConstructed
SpecTreeIter == InitTreeIter /\ [][TreeIterNext]_vars

====
